---- MODULE Spec2Model ----
(***************************************************************************)
(* A model of the store-and-publish engine of relay-runtime:               *)
(*   RelayPublishQueue  (store/RelayPublishQueue.js, lines 70-397)         *)
(*   RelayModernStore   (same file, lines 474-715)                         *)
(* Records, the record-source mutator, the reader and the reference        *)
(* marker are collaborators whose code is outside the files modelled here; *)
(* they are modelled after their description in the specification.         *)
(***************************************************************************)
EXTENDS Integers, Sequences, FiniteSets, TLC

(***************************************************************************)
(* Bounds of the model.                                                    *)
(***************************************************************************)
\* most optimistic updates that are pending or applied at one time
MaxOptimistic == 2
\* most entries of _pendingData at one time
MaxPendingData == 1
\* most entries of _pendingUpdaters at one time
MaxPendingUpdaters == 1
\* most retain() calls
MaxRetain == 2
\* most holdGC() calls made by users of the store
MaxHolds == 1
\* most subscribe() calls
MaxSubs == 2

(***************************************************************************)
(* Records and record sources.                                             *)
(* A record maps each storage key to a value; "undef" is an absent key and *)
(* "unpubf" the field sentinel of a backup record (the field did not exist *)
(* before the write).  The key "friend" holds a linked reference, written  *)
(* as the DataID it points to.  An entry of a record source is a record,   *)
(* null (a tombstone), the unpublish sentinel, or absent.                  *)
(***************************************************************************)
DataIDs == {"1", "2"}

Fields == {"name", "friend"}

NoFields == [k \in Fields |-> "undef"]

Absent == [st |-> "absent", f |-> NoFields]

Tomb == [st |-> "null", f |-> NoFields]

Unpublish == [st |-> "unpublish", f |-> NoFields]

Rec(f) == [st |-> "rec", f |-> f]

WithName(v) == Rec([NoFields EXCEPT !["name"] = v])

EmptySource == [id \in DataIDs |-> Absent]

\* RecordSource.getRecordIDs
getRecordIDs(src) == {id \in DataIDs : src[id].st # "absent"}

\* RecordSource.size
size(src) == Cardinality(getRecordIDs(src))

\* RelayModernRecord.update(prevRecord, nextRecord): field-wise merge; a
\* field sentinel in nextRecord deletes the field
RecordUpdate(prev, next) ==
    [k \in Fields |->
        IF next[k] = "undef" THEN prev[k]
        ELSE IF next[k] = "unpubf" THEN "undef"
        ELSE next[k]]

(***************************************************************************)
(* RelayModernStore.publish: updateTargetFromSource, one dataID at a time. *)
(***************************************************************************)
\* the entry of the target when a record replaces the record it finds
MergedEntryReplaces(t, s) ==
    IF s.st = "unpublish" THEN Absent
    ELSE IF s.st = "null" THEN Tomb
    ELSE IF s.st = "rec" THEN s
    ELSE t

\* the entry of the target after the source entry s was merged into t
MergedEntry(t, s) ==
    IF s.st = "unpublish" THEN Absent
    ELSE IF s.st = "rec" /\ t.st = "rec" THEN Rec(RecordUpdate(t.f, s.f))
    ELSE IF s.st = "null" THEN Tomb
    ELSE IF s.st = "rec" THEN s
    ELSE t

\* marking that takes a published null for a change of a record only
MarksUpdatedOnDeletedRecord(t, s) ==
    IF s.st = "unpublish" THEN TRUE
    ELSE IF s.st = "rec" /\ t.st = "rec" THEN RecordUpdate(t.f, s.f) # t.f
    ELSE IF s.st = "null" THEN t.st = "rec"
    ELSE IF s.st = "rec" THEN TRUE
    ELSE FALSE

\* marking that takes every published null for a change
MarksUpdatedOnEveryDelete(t, s) ==
    IF s.st = "unpublish" THEN TRUE
    ELSE IF s.st = "rec" /\ t.st = "rec" THEN RecordUpdate(t.f, s.f) # t.f
    ELSE IF s.st = "null" THEN TRUE
    ELSE IF s.st = "rec" THEN TRUE
    ELSE FALSE

\* whether merging s into t marks the dataID as updated
MarksUpdated(t, s) ==
    IF s.st = "unpublish" THEN TRUE
    ELSE IF s.st = "rec" /\ t.st = "rec" THEN RecordUpdate(t.f, s.f) # t.f
    ELSE IF s.st = "null" THEN t.st # "null"
    ELSE IF s.st = "rec" THEN TRUE
    ELSE FALSE

\* a store is the pair  [src |-> canonical source, upd |-> updated IDs]
updateTargetFromSource(store, source) ==
    [src |-> [id \in DataIDs |-> MergedEntry(store.src[id], source[id])],
     upd |-> store.upd \cup
             {id \in DataIDs : MarksUpdated(store.src[id], source[id])}]

(***************************************************************************)
(* RelayRecordSourceMutator: a sink overlaid on a base, with an optional   *)
(* backup.  Reads fall through the sink to the base, writes go to the sink *)
(* only, and the backup receives the state a record had before its first   *)
(* write.  A transaction is  [sink, backup, threw], with more fields where *)
(* its caller counts.                                                      *)
(***************************************************************************)
\* whether the record exists for a read through the sink and the base
Exists(base, sink, id) ==
    IF sink[id].st # "absent" THEN sink[id].st = "rec" ELSE base[id].st = "rec"

\* the entry that undoes every write to a record whose base entry is b
BackupEntry(b) ==
    IF b.st = "rec" THEN b ELSE IF b.st = "null" THEN Tomb ELSE Unpublish

\* save the pre-write state of the record, on its first write only
SaveBackup(backup, base, id, hasBackup) ==
    IF hasBackup /\ backup[id].st = "absent"
    THEN [backup EXCEPT ![id] = BackupEntry(base[id])]
    ELSE backup

\* mark in the backup record a field that did not exist before the write
SaveFieldSentinel(backup, id, k, hasBackup) ==
    IF hasBackup /\ backup[id].st = "rec" /\ backup[id].f[k] = "undef"
    THEN [backup EXCEPT ![id] = Rec([backup[id].f EXCEPT ![k] = "unpubf"])]
    ELSE backup

\* the record a write goes to: the sink's, or a shallow copy of the base's
SinkRecord(base, sink, id) ==
    IF sink[id].st = "rec" THEN sink[id].f ELSE base[id].f

Threw(tx) == [tx EXCEPT !.threw = TRUE]

\* create that replaces a record that exists already
MutatorCreateOverwrites(tx, base, id, hasBackup) ==
    [tx EXCEPT
       !.sink = [tx.sink EXCEPT ![id] = Rec(NoFields)],
       !.backup = SaveBackup(tx.backup, base, id, hasBackup)]

MutatorCreate(tx, base, id, hasBackup) ==
    IF Exists(base, tx.sink, id) THEN Threw(tx)
    ELSE [tx EXCEPT
            !.sink = [tx.sink EXCEPT ![id] = Rec(NoFields)],
            !.backup = SaveBackup(tx.backup, base, id, hasBackup)]

MutatorSetValue(tx, base, id, k, v, hasBackup) ==
    IF ~Exists(base, tx.sink, id) THEN Threw(tx)
    ELSE [tx EXCEPT
            !.sink = [tx.sink EXCEPT
                        ![id] = Rec([SinkRecord(base, tx.sink, id)
                                       EXCEPT ![k] = v])],
            !.backup = SaveFieldSentinel(
                           SaveBackup(tx.backup, base, id, hasBackup),
                           id, k, hasBackup)]

MutatorDelete(tx, base, id, hasBackup) ==
    [tx EXCEPT !.sink = [tx.sink EXCEPT ![id] = Tomb],
               !.backup = SaveBackup(tx.backup, base, id, hasBackup)]

(***************************************************************************)
(* User code and payloads act on the proxy through these operations:       *)
(*   create / set / delete   the calls of RelayRecordSourceProxy,          *)
(*   ensure                  publishSource's "create unless it exists",    *)
(*   throw                   the updater raises an error.                  *)
(***************************************************************************)
Op(op, id, k, v) == [op |-> op, id |-> id, k |-> k, v |-> v]

ApplyOp(tx, base, o, hasBackup) ==
    CASE o.op = "create" -> MutatorCreate(tx, base, o.id, hasBackup)
      [] o.op = "ensure" -> IF Exists(base, tx.sink, o.id) THEN tx
                            ELSE MutatorCreate(tx, base, o.id, hasBackup)
      [] o.op = "set"    -> MutatorSetValue(tx, base, o.id, o.k, o.v, hasBackup)
      [] o.op = "delete" -> MutatorDelete(tx, base, o.id, hasBackup)
      [] OTHER           -> Threw(tx)

\* run the operations in order; an error ends the run of this op list
RECURSIVE ApplyOps(_, _, _, _)
ApplyOps(tx, base, ops, hasBackup) ==
    IF ops = <<>> \/ tx.threw THEN tx
    ELSE ApplyOps(ApplyOp(tx, base, Head(ops), hasBackup), base, Tail(ops),
                  hasBackup)

\* ErrorUtils.applyWithGuard(updater, ...): the error is caught and logged,
\* the writes made before it stay in the sink
applyWithGuard(tx, base, ops, hasBackup) ==
    [ApplyOps(tx, base, ops, hasBackup) EXCEPT !.threw = FALSE]

(***************************************************************************)
(* The inputs: optimistic updates, payloads, sources and updaters that the *)
(* callers of the queue pass in.  Each is named; its definition gives the  *)
(* writes it makes.                                                        *)
(***************************************************************************)
OptimisticUpdateIDs == {"uCreate", "uDelete", "uThrow", "uSource",
                        "uResponse"}

\* An optimistic update: `pre` is what store.commitPayload / publishSource
\* writes (not guarded), `ops` what the user's updater does (guarded).
OptimisticUpdate(u) ==
    CASE u = "uCreate" ->   \* {storeUpdater}: creates record 1, names it
           [kind |-> "storeUpdater", pre |-> <<>>,
            ops |-> <<Op("create", "1", "name", "undef"),
                      Op("set", "1", "name", "Opti")>>]
      [] u = "uDelete" ->   \* {storeUpdater}: deletes record 1
           [kind |-> "storeUpdater", pre |-> <<>>,
            ops |-> <<Op("delete", "1", "name", "undef")>>]
      [] u = "uThrow" ->    \* {storeUpdater}: links 1 to 2, then throws
           [kind |-> "storeUpdater", pre |-> <<>>,
            ops |-> <<Op("set", "1", "friend", "2"),
                      Op("throw", "1", "name", "undef")>>]
      [] u = "uSource" ->   \* {source, fieldPayloads}: record 2 named Opti
           [kind |-> "source",
            pre |-> <<Op("ensure", "2", "name", "undef"),
                      Op("set", "2", "name", "Opti")>>,
            ops |-> <<>>]
      [] u = "uOther" ->    \* {source, fieldPayloads}: record 1 named Other
           [kind |-> "source",
            pre |-> <<Op("ensure", "1", "name", "undef"),
                      Op("set", "1", "name", "Other")>>,
            ops |-> <<>>]
      [] u = "uNoHandler" -> \* {source, fieldPayloads}: record 2 named
                            \* Opti, and a handle field without a handler:
                            \* publishSource fails on it
           [kind |-> "source",
            pre |-> <<Op("ensure", "2", "name", "undef"),
                      Op("set", "2", "name", "Opti"),
                      Op("throw", "2", "name", "undef")>>,
            ops |-> <<>>]
      [] u = "uMalformed" -> \* {}: none of the variants; the dispatch takes
                            \* it for {source, fieldPayloads}, and
                            \* publishSource(undefined) fails
           [kind |-> "source",
            pre |-> <<Op("throw", "1", "name", "undef")>>,
            ops |-> <<>>]
      [] OTHER ->           \* {operation, response, selectorStoreUpdater}
           [kind |-> "operation",
            pre |-> <<Op("ensure", "1", "name", "undef"),
                      Op("set", "1", "name", "Opti")>>,
            ops |-> <<Op("delete", "2", "name", "undef")>>]

\* arguments of applyUpdate that are none of the three variants
MalformedUpdateIDs == {"uMalformed"}

PayloadIDs == {"pUpdater", "pThrow"}

\* A payload of commitPayload: the normalized source, the handle field
\* payloads and the updater.
Payload(p) ==
    CASE p = "pUpdater" ->
           [kind |-> "payload",
            source |-> [EmptySource EXCEPT !["1"] = WithName("Real")],
            handles |-> <<>>, hasUpdater |-> TRUE,
            ops |-> <<Op("set", "1", "friend", "2")>>]
      [] p = "pReal" ->     \* a response naming record 1, no updater
           [kind |-> "payload",
            source |-> [EmptySource EXCEPT !["1"] = WithName("Real")],
            handles |-> <<>>, hasUpdater |-> FALSE, ops |-> <<>>]
      [] p = "pHandled" ->  \* a handle field with a registered handler
           [kind |-> "payload",
            source |-> [EmptySource EXCEPT !["2"] = WithName("Real")],
            handles |-> <<[handle |-> "friendsName",
                           ops |-> <<Op("set", "2", "friend", "1")>>]>>,
            hasUpdater |-> FALSE, ops |-> <<>>]
      [] p = "pNoHandler" -> \* a handle field no handler is provided for
           [kind |-> "payload",
            source |-> [EmptySource EXCEPT !["2"] = WithName("Real")],
            handles |-> <<[handle |-> "unknownHandle",
                           ops |-> <<Op("set", "2", "friend", "1")>>]>>,
            hasUpdater |-> FALSE, ops |-> <<>>]
      [] OTHER ->           \* pThrow: the updater throws
           [kind |-> "payload",
            source |-> [EmptySource EXCEPT !["2"] = WithName("Real")],
            handles |-> <<>>, hasUpdater |-> TRUE,
            ops |-> <<Op("set", "2", "friend", "1"),
                      Op("throw", "2", "name", "undef")>>]

SourceIDs == {"sDelete", "sTwo"}

\* A source of commitSource
SourceOf(x) ==
    CASE x = "sDelete" -> [EmptySource EXCEPT !["1"] = Tomb]
      [] x = "sOther" -> [EmptySource EXCEPT !["1"] = WithName("Other")]
      [] OTHER -> [EmptySource EXCEPT !["2"] = WithName("Real")]

SourceEntry(x) ==
    [kind |-> "source", source |-> SourceOf(x), handles |-> <<>>,
     hasUpdater |-> FALSE, ops |-> <<>>]

StoreUpdaterIDs == {"cName", "cThrow"}

\* A store updater of commitUpdate
StoreUpdater(c) ==
    IF c = "cName" THEN <<Op("set", "1", "name", "Real")>>
    ELSE <<Op("ensure", "2", "name", "undef"),
           Op("set", "2", "friend", "1"),
           Op("throw", "2", "name", "undef")>>

\* the handles for which the handler provider has a handler
RegisteredHandles == {"friendsName"}

\* the sources a store is constructed with
InitialSources ==
    {EmptySource, [EmptySource EXCEPT !["1"] = WithName("Real")]}

(***************************************************************************)
(* RelayReader.read for the selection  { name, friend { name } }  rooted   *)
(* at a dataID.  The selector of a snapshot is its root dataID; the owner  *)
(* of a snapshot is named after its selector.                              *)
(***************************************************************************)
LinkedChild(src, id) ==
    IF src[id].st = "rec" /\ src[id].f["friend"] \in DataIDs
    THEN src[src[id].f["friend"]] ELSE Absent

ReadData(src, id) ==
    LET r == src[id]
        linked == r.st = "rec" /\ r.f["friend"] \in DataIDs
        child == LinkedChild(src, id)
    IN  [st |-> IF r.st = "rec" THEN "obj"
                ELSE IF r.st = "null" THEN "null" ELSE "undefined",
         name |-> r.f["name"],
         friend |-> IF ~linked THEN "undefined"
                    ELSE IF child.st = "rec" THEN "obj"
                    ELSE IF child.st = "null" THEN "null" ELSE "undefined",
         friendName |-> child.f["name"]]

SeenRecords(src, id) ==
    {id} \cup (IF src[id].st = "rec" /\ src[id].f["friend"] \in DataIDs
               THEN {src[id].f["friend"]} ELSE {})

IsMissingData(d) ==
    \/ d.st = "undefined"
    \/ d.st = "obj" /\ (d.name = "undef" \/ d.friend = "undefined"
                        \/ (d.friend = "obj" /\ d.friendName = "undef"))

\* a read that records the root in seenRecords only when it finds a record
ReadSeesRecordsOnly(src, id) ==
    [selector |-> id, data |-> ReadData(src, id),
     seenRecords |-> IF src[id].st = "rec" THEN SeenRecords(src, id) ELSE {},
     isMissingData |-> IsMissingData(ReadData(src, id)), owner |-> id]

Read(src, id) ==
    [selector |-> id, data |-> ReadData(src, id),
     seenRecords |-> SeenRecords(src, id),
     isMissingData |-> IsMissingData(ReadData(src, id)), owner |-> id]

\* hasOverlappingIDs(snapshot, updatedRecordIDs)
hasOverlappingIDs(snapshot, updated) == snapshot.seenRecords \cap updated # {}

\* RelayReferenceMarker.mark for the same selection rooted at a dataID:
\* the records reached from the root
Mark(src, id) ==
    IF src[id].st # "rec" THEN {}
    ELSE {id} \cup (IF LinkedChild(src, id).st = "rec"
                    THEN {src[id].f["friend"]} ELSE {})

(***************************************************************************)
(* RelayModernFragmentSpecResolver for the fragments                       *)
(*     { user: UserFragment, users: UsersFragment (plural) }               *)
(* A prop is null or refers to records by dataID.  The environment e of    *)
(* the resolver is the store: its source and its subscriptions, with the   *)
(* numbers of the calls of lookup() and of dispose() that a call of the    *)
(* container has made.  Objects are compared by reference in the code: an  *)
(* object that resolve() has put in its result is known by the place `at`  *)
(* where it was put, and null and undefined by their value.                *)
(***************************************************************************)
VariablesIDs == {"v1", "v2"}

\* the variables of the owner of the fragment references given as props
PropsVariables == "v1"

NullData == ReadData([EmptySource EXCEPT !["1"] = Tomb], "1")

UndefinedData == ReadData(EmptySource, "1")

\* the props of the singular key, and of the plural key
UserProps == {"null", "1", "2"}

UsersProps == {"null", "empty", "one", "oneTwo", "twoOne"}

\* getSelectorsFromObject for the plural key: the dataIDs of the selectors
UsersSelectors(p) ==
    CASE p = "one" -> <<"1">>
      [] p = "oneTwo" -> <<"1", "2">>
      [] p = "twoOne" -> <<"2", "1">>
      [] OTHER -> <<>>

\* _resolvers[key] = null
NoSelectorResolver ==
    [dataID |-> "none", variables |-> "none", data |-> NullData, sub |-> 0,
     at |-> 0]

NoListResolver ==
    [made |-> FALSE, items |-> <<>>, stale |-> FALSE, data |-> <<>>,
     dirty |-> FALSE]

\* the resolver before its construction
NoResolver ==
    [made |-> FALSE, stale |-> FALSE, user |-> NoSelectorResolver,
     users |-> NoListResolver,
     data |-> [user |-> UndefinedData,
               users |-> [st |-> "undefined", items |-> <<>>]],
     fresh |-> FALSE, called |-> 0, disposed |-> FALSE, lookups |-> 0,
     disposes |-> 0, changed |-> FALSE]

\* the subscriptions of the resolver are named by the first number from
\* 101 that no subscription of the store has
NewSub(subs) ==
    CHOOSE i \in 101..(101 + Len(subs)) :
        \A k \in DOMAIN subs : subs[k].id # i

\* environment.lookup and environment.subscribe of a SelectorResolver
lookupAndSubscribe(dataID, variables, e) ==
    [it |-> [dataID |-> dataID, variables |-> variables,
             data |-> ReadData(e.src, dataID), sub |-> NewSub(e.subs),
             at |-> 0],
     e |-> [e EXCEPT !.subs = Append(e.subs,
                                     [id |-> NewSub(e.subs),
                                      snapshot |-> Read(e.src, dataID)]),
                     !.lookups = e.lookups + 1]]

\* SelectorResolver.dispose
SelectorResolverDispose(it, e) ==
    [it |-> [it EXCEPT !.sub = 0],
     e |-> IF it.sub # 0
           THEN [e EXCEPT !.subs = SelectSeq(e.subs,
                                             LAMBDA x : x.id # it.sub),
                          !.disposes = e.disposes + 1]
           ELSE e]

areEqualSelectors(it, dataID, variables) ==
    it.dataID = dataID /\ it.variables = variables

\* SelectorResolver.setSelector that subscribes to the new selector and
\* leaves the subscription to the old one
SelectorResolverSetSelectorKeepsOld(it, dataID, variables, e) ==
    IF it.sub # 0 /\ areEqualSelectors(it, dataID, variables)
    THEN [it |-> it, e |-> e]
    ELSE lookupAndSubscribe(dataID, variables, e)

\* SelectorResolver.setSelector
SelectorResolverSetSelector(it, dataID, variables, e) ==
    IF it.sub # 0 /\ areEqualSelectors(it, dataID, variables)
    THEN [it |-> it, e |-> e]
    ELSE lookupAndSubscribe(dataID, variables,
                            SelectorResolverDispose(it, e).e)

\* SelectorResolver.setVariables
SelectorResolverSetVariables(it, variables, e) ==
    IF variables = it.variables THEN [it |-> it, e |-> e]
    ELSE SelectorResolverSetSelector(it, it.dataID, variables, e)

\* the list x.l with the resolver y.it as its item ii, in the environment
\* y.e
withItem(x, ii, y) ==
    [l |-> [x.l EXCEPT !.items = IF ii <= Len(x.l.items)
                                 THEN [x.l.items EXCEPT ![ii] = y.it]
                                 ELSE Append(x.l.items, y.it)],
     e |-> y.e]

\* SelectorListResolver.dispose, and the while loop of setSelector that pops
\* and disposes the resolvers after the first `keep`
RECURSIVE disposeItems(_, _, _)
disposeItems(x, ii, pop) ==
    IF ii > Len(x.l.items) THEN x
    ELSE IF pop
    THEN disposeItems(
             [l |-> [x.l EXCEPT !.items = SubSeq(x.l.items, 1,
                                                 Len(x.l.items) - 1)],
              e |-> SelectorResolverDispose(x.l.items[Len(x.l.items)],
                                            x.e).e],
             ii, pop)
    ELSE disposeItems(withItem(x, ii,
                               SelectorResolverDispose(x.l.items[ii], x.e)),
                      ii + 1, pop)

\* the for loop of SelectorListResolver.setSelector
RECURSIVE setSelectors(_, _, _, _)
setSelectors(x, ii, selectors, variables) ==
    IF ii > Len(selectors) THEN x
    ELSE setSelectors(
             withItem(x, ii,
                      IF ii <= Len(x.l.items)
                      THEN SelectorResolverSetSelector(x.l.items[ii],
                                                       selectors[ii],
                                                       variables, x.e)
                      ELSE lookupAndSubscribe(selectors[ii], variables,
                                              x.e)),
             ii + 1, selectors, variables)

markStale(x) == [l |-> [x.l EXCEPT !.stale = TRUE], e |-> x.e]

\* SelectorListResolver.setSelector
SelectorListResolverSetSelector(l, selectors, variables, e) ==
    markStale(setSelectors(disposeItems([l |-> l, e |-> e],
                                        Len(selectors) + 1, TRUE),
                           1, selectors, variables))

\* the for loop of SelectorListResolver.setVariables
RECURSIVE setItemVariables(_, _, _)
setItemVariables(x, ii, variables) ==
    IF ii > Len(x.l.items) THEN x
    ELSE setItemVariables(
             withItem(x, ii,
                      SelectorResolverSetVariables(x.l.items[ii], variables,
                                                   x.e)),
             ii + 1, variables)

\* prevData[ii] of an array: undefined after its end
ItemAt(data, ii) == IF ii <= Len(data) THEN data[ii] ELSE UndefinedData

\* nextItem !== prevItem, for the data of a SelectorResolver and the entry
\* at place ii of the previous result
isNewItem(it, ii, prevItem) ==
    IF it.data.st = "obj" THEN it.at # ii ELSE it.data # prevItem

\* the for loop of SelectorListResolver.resolve: x.next is nextData, and
\* x.set says that nextData is set
RECURSIVE resolveItems(_, _)
resolveItems(x, ii) ==
    IF ii > Len(x.l.items) THEN x
    ELSE IF x.set \/ isNewItem(x.l.items[ii], ii, ItemAt(x.l.data, ii))
    THEN resolveItems(
             [l |-> [x.l EXCEPT
                       !.items[ii].at =
                           IF x.set THEN Len(x.next) + 1
                           ELSE IF ii - 1 <= Len(x.l.data) THEN ii
                           ELSE Len(x.l.data) + 1],
              next |-> IF x.set THEN Append(x.next, x.l.items[ii].data)
                       ELSE Append(SubSeq(x.l.data, 1,
                                          IF ii - 1 <= Len(x.l.data)
                                          THEN ii - 1 ELSE Len(x.l.data)),
                                   x.l.items[ii].data),
              set |-> TRUE],
             ii + 1)
    ELSE resolveItems(x, ii + 1)

\* the end of SelectorListResolver.resolve
resolvedList(x) ==
    [x.l EXCEPT
       !.data = IF x.set THEN x.next
                ELSE IF Len(x.l.items) # Len(x.l.data)
                THEN SubSeq(x.l.data, 1,
                            IF Len(x.l.items) < Len(x.l.data)
                            THEN Len(x.l.items) ELSE Len(x.l.data))
                ELSE x.l.data,
       !.dirty = x.l.dirty \/ x.set \/ Len(x.l.items) # Len(x.l.data),
       !.stale = FALSE]

\* SelectorListResolver.resolve
SelectorListResolverResolve(l) ==
    IF l.stale
    THEN resolvedList(resolveItems([l |-> l, next |-> <<>>, set |-> FALSE],
                                   1))
    ELSE l

withUser(r, y) == [r |-> [r EXCEPT !.user = y.it], e |-> y.e]

withUsers(r, y) == [r |-> [r EXCEPT !.users = y.l], e |-> y.e]

\* the body of the loop of setProps for the key user
setUserProp(r, e, p) ==
    IF p = "null"
    THEN withUser(r, [it |-> NoSelectorResolver,
                      e |-> SelectorResolverDispose(r.user, e).e])
    ELSE IF r.user.dataID = "none"
    THEN withUser(r, lookupAndSubscribe(p, PropsVariables, e))
    ELSE withUser(r, SelectorResolverSetSelector(r.user, p, PropsVariables,
                                                 e))

\* dispose() of the resolver of the key users
disposeUsers(x) ==
    withUsers(x.r, disposeItems([l |-> x.r.users, e |-> x.e], 1, FALSE))

\* the body of the loop of setProps for the key users
setUsersProp(x, p) ==
    IF p = "null"
    THEN withUsers(x.r, [l |-> NoListResolver, e |-> disposeUsers(x).e])
    ELSE withUsers(x.r,
                   SelectorListResolverSetSelector(
                       IF x.r.users.made THEN x.r.users
                       ELSE [made |-> TRUE, items |-> <<>>, stale |-> TRUE,
                             data |-> <<>>, dirty |-> TRUE],
                       UsersSelectors(p), PropsVariables, x.e))

\* the end of setProps and of setVariables
markResolverStale(x) ==
    [r |-> [x.r EXCEPT !.made = TRUE, !.stale = TRUE, !.called = 0,
                       !.fresh = FALSE, !.disposed = FALSE],
     e |-> x.e]

\* RelayModernFragmentSpecResolver.setProps
resolverSetProps(r, e, pu, pl) ==
    markResolverStale(setUsersProp(setUserProp(r, e, pu), pl))

\* setVariables of the resolver of the key users
setUsersVariables(x, variables) ==
    IF x.r.users.made
    THEN withUsers(x.r, markStale(setItemVariables([l |-> x.r.users,
                                                    e |-> x.e],
                                                   1, variables)))
    ELSE x

\* RelayModernFragmentSpecResolver.setVariables
resolverSetVariables(r, e, variables) ==
    markResolverStale(
        setUsersVariables(
            IF r.user.dataID = "none" THEN [r |-> r, e |-> e]
            ELSE withUser(r, SelectorResolverSetVariables(r.user, variables,
                                                          e)),
            variables))

\* the resolver after dispose() has gone through its resolvers
markDisposed(x) ==
    [r |-> [x.r EXCEPT !.called = 0, !.fresh = FALSE, !.disposed = TRUE],
     e |-> x.e]

\* dispose() that leaves the resolver of the plural key as it is
resolverDisposeSingular(r, e) ==
    markDisposed(withUser(r, SelectorResolverDispose(r.user, e)))

\* RelayModernFragmentSpecResolver.dispose
resolverDispose(r, e) ==
    markDisposed(disposeUsers(withUser(r,
                                       SelectorResolverDispose(r.user, e))))

\* nextItem !== prevItem for the key user, and !isScalarAndEqual(nextItem,
\* prevItem) when there is no resolver
isNewUser(r) ==
    IF r.user.dataID = "none" THEN r.data.user # NullData
    ELSE isNewItem(r.user, 1, r.data.user)

\* the same for the key users, when its resolver has resolved
isNewUsers(r, l) ==
    IF l.made THEN l.dirty ELSE r.data.users.st # "null"

\* the loop of resolve(), with the resolver l of the key users resolved
resolvedWith(r, l) ==
    [r EXCEPT
       !.data = [user |-> r.user.data,
                 users |-> IF l.made THEN [st |-> "list", items |-> l.data]
                           ELSE [st |-> "null", items |-> <<>>]],
       !.user.at = IF r.user.dataID = "none" THEN 0 ELSE 1,
       !.users = [l EXCEPT !.dirty = FALSE],
       !.fresh = TRUE, !.stale = FALSE, !.called = 0, !.changed = FALSE]

\* RelayModernFragmentSpecResolver.resolve
resolverResolve(r, l) ==
    IF r.stale /\ (isNewUser(r) \/ isNewUsers(r, l))
    THEN resolvedWith(r, l)
    ELSE [r EXCEPT !.users = l, !.fresh = FALSE, !.stale = FALSE,
                   !.called = 0, !.changed = FALSE]

\* SelectorResolver._onChange of the resolver of the key user, and
\* RelayModernFragmentSpecResolver._onChange
userOnChange(r, snapshot) ==
    [r EXCEPT !.user.data = snapshot.data, !.user.at = 0, !.stale = TRUE,
              !.called = r.called + 1, !.changed = TRUE]

\* SelectorResolver._onChange of item ii of the key users,
\* SelectorListResolver._onChange and
\* RelayModernFragmentSpecResolver._onChange
itemOnChange(r, ii, snapshot) ==
    [r EXCEPT !.users.items[ii].data = snapshot.data,
              !.users.items[ii].at = 0, !.users.stale = TRUE,
              !.stale = TRUE, !.called = r.called + 1, !.changed = TRUE]

\* the callback of the subscription of call c
onChange(r, c) ==
    IF r.user.sub = c.sub THEN userOnChange(r, c.snapshot)
    ELSE IF \E ii \in DOMAIN r.users.items : r.users.items[ii].sub = c.sub
    THEN itemOnChange(r,
                      CHOOSE ii \in DOMAIN r.users.items :
                          r.users.items[ii].sub = c.sub,
                      c.snapshot)
    ELSE r

\* the callbacks that notify() has invoked, in their order
RECURSIVE deliver(_, _, _)
deliver(r, calls, k) ==
    IF k > Len(calls) THEN r
    ELSE deliver(onChange(r, calls[k]), calls, k + 1)

(***************************************************************************)
(* State.                                                                  *)
(***************************************************************************)
VARIABLES
    \* RelayModernStore
    recordSource,        \* _recordSource
    updatedRecordIDs,    \* _updatedRecordIDs
    roots,               \* _roots: index -> selector, as a set of pairs
    index,               \* _index
    subscriptions,       \* _subscriptions, in insertion order
    gcHoldCounter,       \* _gcHoldCounter
    shouldScheduleGC,    \* _shouldScheduleGC
    hasScheduledGC,      \* _hasScheduledGC
    gcThunks,            \* the thunks given to _gcScheduler and not yet run
    \* RelayPublishQueue
    backup,                     \* _backup
    pendingBackupRebase,        \* _pendingBackupRebase
    pendingData,                \* _pendingData, in insertion order
    pendingUpdaters,            \* _pendingUpdaters, in insertion order
    pendingOptimisticUpdates,   \* _pendingOptimisticUpdates, in insertion order
    appliedOptimisticUpdates,   \* _appliedOptimisticUpdates, in insertion order
    gcHold,                     \* _gcHold # null
    \* the callers of the store
    holds,               \* the hold disposables handed to users: live or not
    retains,             \* the retain disposables, by index: live or not
    subIndex,            \* number of subscribe() calls so far
    resolver,            \* the RelayModernFragmentSpecResolver of a container
    \* observation of the run, for the properties
    lastOp,              \* the operation that made the last step
    lastRun,             \* what the last run() did
    lastNotify,          \* what the last notify() did
    lastGC,              \* what the last __gc() did
    authSource,          \* the source with the authoritative writes only
    undo,                \* the source before the first applyUpdate
    queueHoldCount       \* holdGC() calls of the queue not yet disposed

storeVars == <<recordSource, updatedRecordIDs, roots, index, subscriptions,
               gcHoldCounter, shouldScheduleGC, hasScheduledGC, gcThunks>>

queueVars == <<backup, pendingBackupRebase, pendingData, pendingUpdaters,
               pendingOptimisticUpdates, appliedOptimisticUpdates, gcHold>>

callerVars == <<holds, retains, subIndex, resolver>>

histVars == <<lastOp, lastRun, lastNotify, lastGC, authSource, undo,
              queueHoldCount>>

vars == <<storeVars, queueVars, callerVars, histVars>>

NoRun == [threw |-> FALSE, rebase |-> FALSE, authWork |-> FALSE,
          appliedBefore |-> 0, reverted |-> FALSE, undid |-> FALSE,
          pendingRevert |-> FALSE, executed |-> {}, executions |-> <<>>,
          nested |-> 0]

NoNotify == [updated |-> {}, reread |-> {}, calls |-> <<>>, owners |-> <<>>,
             before |-> <<>>]

NoGC == [marked |-> {}, held |-> FALSE, before |-> EmptySource]

NoUndo == [phase |-> "idle", src |-> EmptySource, dirty |-> FALSE]

\* the constructors of RelayModernStore and RelayPublishQueue
Init ==
    /\ recordSource \in InitialSources
    /\ updatedRecordIDs = {}
    /\ roots = {}
    /\ index = 0
    /\ subscriptions = <<>>
    /\ gcHoldCounter = 0
    /\ shouldScheduleGC = FALSE
    /\ hasScheduledGC = FALSE
    /\ gcThunks = 0
    /\ backup = EmptySource
    /\ pendingBackupRebase = FALSE
    /\ pendingData = <<>>
    /\ pendingUpdaters = <<>>
    /\ pendingOptimisticUpdates = <<>>
    /\ appliedOptimisticUpdates = <<>>
    /\ gcHold = FALSE
    /\ holds = <<>>
    /\ retains = <<>>
    /\ subIndex = 0
    /\ resolver = NoResolver
    /\ lastOp = "init"
    /\ lastRun = NoRun
    /\ lastNotify = NoNotify
    /\ lastGC = NoGC
    /\ authSource = recordSource
    /\ undo = NoUndo
    /\ queueHoldCount = 0

Range(seq) == {seq[i] : i \in DOMAIN seq}

Remove(seq, x) == SelectSeq(seq, LAMBDA y : y # x)

(***************************************************************************)
(* RelayPublishQueue: the operations that queue work for the next run().   *)
(***************************************************************************)
\* what is recorded of a step other than run() and __gc(): the kind of the
\* operation, and whether an applied optimistic update was reverted
Observed(op, revert) ==
    /\ lastOp' = op
    /\ lastRun' = [NoRun EXCEPT
                     !.pendingRevert = lastRun.pendingRevert \/ revert]
    /\ lastNotify' = NoNotify
    /\ lastGC' = NoGC

\* no optimistic or authoritative work is queued or in effect
QueueIsClean ==
    /\ pendingOptimisticUpdates = <<>>
    /\ appliedOptimisticUpdates = <<>>
    /\ pendingData = <<>>
    /\ pendingUpdaters = <<>>
    /\ size(backup) = 0

NumOptimistic ==
    Len(pendingOptimisticUpdates) + Len(appliedOptimisticUpdates)

\* applyUpdate that adds the update whether or not the queue holds it
applyUpdateUnchecked(u) ==
    /\ NumOptimistic < MaxOptimistic
    /\ pendingOptimisticUpdates' = Append(pendingOptimisticUpdates, u)
    /\ undo' = NoUndo
    /\ Observed("queued", FALSE)
    /\ UNCHANGED <<storeVars, callerVars, backup, pendingBackupRebase,
                   pendingData, pendingUpdaters, appliedOptimisticUpdates,
                   gcHold, authSource,
                   queueHoldCount>>

\* applyUpdate whose invariant() fails: the call throws before the add
applyUpdateThrows(u) ==
    /\ \/ u \in Range(appliedOptimisticUpdates)
       \/ u \in Range(pendingOptimisticUpdates)
    /\ Observed("applyUpdateThrew", FALSE)
    /\ UNCHANGED <<storeVars, queueVars, callerVars, authSource, undo,
                   queueHoldCount>>

applyUpdate(u) ==
    /\ u \notin Range(appliedOptimisticUpdates)
    /\ u \notin Range(pendingOptimisticUpdates)
    /\ NumOptimistic < MaxOptimistic
    /\ pendingOptimisticUpdates' = Append(pendingOptimisticUpdates, u)
    /\ undo' = IF undo.phase = "tracking" THEN undo
               ELSE IF QueueIsClean
                    THEN [phase |-> "tracking", src |-> recordSource,
                          dirty |-> FALSE]
                    ELSE NoUndo
    /\ Observed("queued", FALSE)
    /\ UNCHANGED <<storeVars, callerVars, backup, pendingBackupRebase,
                   pendingData, pendingUpdaters, appliedOptimisticUpdates,
                   gcHold, authSource,
                   queueHoldCount>>

\* revertUpdate that looks for the update in the applied set only
revertUpdateAppliedOnly(u) ==
    /\ IF u \in Range(appliedOptimisticUpdates)
       THEN /\ pendingBackupRebase' = TRUE
            /\ appliedOptimisticUpdates' = Remove(appliedOptimisticUpdates, u)
       ELSE UNCHANGED <<pendingBackupRebase, appliedOptimisticUpdates>>
    /\ undo' = NoUndo
    /\ Observed("queued", u \in Range(appliedOptimisticUpdates))
    /\ UNCHANGED <<storeVars, callerVars, backup, pendingData,
                   pendingUpdaters, pendingOptimisticUpdates, gcHold,
                   authSource, queueHoldCount>>

revertUpdate(u) ==
    /\ IF u \in Range(pendingOptimisticUpdates)
       THEN /\ pendingOptimisticUpdates' = Remove(pendingOptimisticUpdates, u)
            /\ UNCHANGED <<pendingBackupRebase, appliedOptimisticUpdates>>
       ELSE IF u \in Range(appliedOptimisticUpdates)
       THEN /\ pendingBackupRebase' = TRUE
            /\ appliedOptimisticUpdates' = Remove(appliedOptimisticUpdates, u)
            /\ UNCHANGED pendingOptimisticUpdates
       ELSE UNCHANGED <<pendingBackupRebase, appliedOptimisticUpdates,
                        pendingOptimisticUpdates>>
    /\ undo' = NoUndo
    /\ Observed("queued", u \in Range(appliedOptimisticUpdates))
    /\ UNCHANGED <<storeVars, callerVars, backup, pendingData,
                   pendingUpdaters, gcHold, authSource,
                   queueHoldCount>>

revertAll ==
    /\ pendingBackupRebase' = TRUE
    /\ pendingOptimisticUpdates' = <<>>
    /\ appliedOptimisticUpdates' = <<>>
    /\ undo' = IF undo.phase = "tracking"
               THEN [undo EXCEPT !.phase = "reverted"] ELSE NoUndo
    /\ Observed("queued", FALSE)
    /\ UNCHANGED <<storeVars, callerVars, backup, pendingData,
                   pendingUpdaters, gcHold, authSource, queueHoldCount>>

\* the entry that commitPayload or commitSource adds to _pendingData
DataToCommit(kind, x) ==
    IF kind = "payload" THEN Payload(x) ELSE SourceEntry(x)

\* commitPayload / commitSource that publish to the store at once
commitDataEager(kind, x) ==
    /\ Len(pendingData) < MaxPendingData
    /\ pendingBackupRebase' = TRUE
    /\ pendingData' = Append(pendingData, DataToCommit(kind, x))
    /\ recordSource' =
           updateTargetFromSource([src |-> recordSource,
                                   upd |-> updatedRecordIDs],
                                  DataToCommit(kind, x).source).src
    /\ undo' = NoUndo
    /\ Observed("queued", FALSE)
    /\ UNCHANGED <<updatedRecordIDs, roots, index, subscriptions,
                   gcHoldCounter, shouldScheduleGC, hasScheduledGC,
                   gcThunks, callerVars, backup, pendingUpdaters,
                   pendingOptimisticUpdates, appliedOptimisticUpdates,
                   gcHold, authSource, queueHoldCount>>

\* commitPayload, commitSource: an entry is added to _pendingData, which
\* holds fewer than max entries
commitDataWithin(kind, x, max) ==
    /\ Len(pendingData) < max
    /\ pendingBackupRebase' = TRUE
    /\ pendingData' = Append(pendingData, DataToCommit(kind, x))
    /\ undo' = NoUndo
    /\ Observed("queued", FALSE)
    /\ UNCHANGED <<storeVars, callerVars, backup, pendingUpdaters,
                   pendingOptimisticUpdates, appliedOptimisticUpdates,
                   gcHold, authSource,
                   queueHoldCount>>

commitData(kind, x) == commitDataWithin(kind, x, MaxPendingData)

commitPayload(p) == commitData("payload", p)

commitSource(x) == commitData("source", x)

commitUpdate(c) ==
    /\ Len(pendingUpdaters) < MaxPendingUpdaters \/ c \in Range(pendingUpdaters)
    /\ pendingBackupRebase' = TRUE
    /\ pendingUpdaters' = IF c \in Range(pendingUpdaters) THEN pendingUpdaters
                          ELSE Append(pendingUpdaters, c)
    /\ undo' = NoUndo
    /\ Observed("queued", FALSE)
    /\ UNCHANGED <<storeVars, callerVars, backup, pendingData,
                   pendingOptimisticUpdates, appliedOptimisticUpdates,
                   gcHold, authSource,
                   queueHoldCount>>

(***************************************************************************)
(* RelayModernStore: GC scheduling, as functions of the GC state           *)
(*   g = [counter, should, scheduled].                                     *)
(***************************************************************************)
GCState == [counter |-> gcHoldCounter, should |-> shouldScheduleGC,
            scheduled |-> hasScheduledGC, thunks |-> gcThunks]

SetGCState(g) ==
    /\ gcHoldCounter' = g.counter
    /\ shouldScheduleGC' = g.should
    /\ hasScheduledGC' = g.scheduled
    /\ gcThunks' = g.thunks

\* _scheduleGC that gives the scheduler a thunk whether or not it has one
scheduleGCEveryTime(g) ==
    IF g.counter > 0 THEN [g EXCEPT !.should = TRUE]
    ELSE [g EXCEPT !.scheduled = TRUE, !.thunks = g.thunks + 1]

\* _scheduleGC
scheduleGC(g) ==
    IF g.counter > 0 THEN [g EXCEPT !.should = TRUE]
    ELSE IF g.scheduled THEN g
    ELSE [g EXCEPT !.scheduled = TRUE, !.thunks = g.thunks + 1]

\* holdGC
holdGC(g) == [g EXCEPT !.counter = g.counter + 1]

\* dispose() of a hold that forgets the GC requested during the hold
holdDisposeForgets(g) ==
    IF g.counter > 0
    THEN [g EXCEPT !.counter = g.counter - 1,
                   !.should = g.should /\ g.counter > 1]
    ELSE g

\* the dispose() of the disposable that holdGC returns
holdDispose(g) ==
    IF g.counter > 0
    THEN LET g1 == [g EXCEPT !.counter = g.counter - 1]
         IN  IF g1.counter = 0 /\ g1.should
             THEN [scheduleGC(g1) EXCEPT !.should = FALSE]
             ELSE g1
    ELSE g

(***************************************************************************)
(* RelayModernStore.notify and _updateSubscription.                        *)
(* A notification is  [subs, calls, reread, owners]: the subscriptions     *)
(* with their snapshots, the callbacks invoked so far, the subscriptions   *)
(* that were read again, and the owners to return.                         *)
(***************************************************************************)
\* recycleNodesInto(prevData, nextData): the previous data when both are
\* equal by value.  Identity of data is equality of value in this model.
recycleNodesInto(prevData, nextData) ==
    IF prevData = nextData THEN prevData ELSE nextData

\* _updateSubscription without the test for overlapping IDs
updateSubscriptionWithoutOverlapTest(n, i, src, updated) ==
    LET subscription == n.subs[i]
        snapshot == subscription.snapshot
        nextRead == Read(src, snapshot.selector)
        nextSnapshot == [nextRead EXCEPT
                           !.data = recycleNodesInto(snapshot.data,
                                                     nextRead.data)]
    IN  [subs |-> [n.subs EXCEPT ![i].snapshot = nextSnapshot],
         reread |-> n.reread \cup {subscription.id},
         calls |-> IF nextSnapshot.data # snapshot.data
                   THEN Append(n.calls, [sub |-> subscription.id,
                                         snapshot |-> nextSnapshot])
                   ELSE n.calls,
         owners |-> IF nextSnapshot.data # snapshot.data
                    THEN Append(n.owners, snapshot.owner)
                    ELSE n.owners]

\* _updateSubscription that invokes the callback without comparing the data
updateSubscriptionAlwaysFires(n, i, src, updated) ==
    LET subscription == n.subs[i]
        snapshot == subscription.snapshot
        nextRead == Read(src, snapshot.selector)
        nextSnapshot == [nextRead EXCEPT
                           !.data = recycleNodesInto(snapshot.data,
                                                     nextRead.data)]
    IN  IF ~hasOverlappingIDs(snapshot, updated) THEN n
        ELSE [subs |-> [n.subs EXCEPT ![i].snapshot = nextSnapshot],
              reread |-> n.reread \cup {subscription.id},
              calls |-> Append(n.calls, [sub |-> subscription.id,
                                         snapshot |-> nextSnapshot]),
              owners |-> Append(n.owners, snapshot.owner)]

\* the snapshot that was read again, with the previous data recycled
recycled(snapshot, nextSnapshot) ==
    [nextSnapshot EXCEPT
       !.data = recycleNodesInto(snapshot.data, nextSnapshot.data)]

\* the end of _updateSubscription that returns the owner of every
\* subscription it has read again
storeSnapshotReturnsOwner(n, i, nextSnapshot) ==
    [subs |-> [n.subs EXCEPT ![i].snapshot = nextSnapshot],
     reread |-> n.reread \cup {n.subs[i].id},
     calls |-> IF nextSnapshot.data # n.subs[i].snapshot.data
               THEN Append(n.calls, [sub |-> n.subs[i].id,
                                     snapshot |-> nextSnapshot])
               ELSE n.calls,
     owners |-> Append(n.owners, n.subs[i].snapshot.owner)]

\* the end of _updateSubscription that stores the snapshot only when it
\* invokes the callback
storeSnapshotWhenFired(n, i, nextSnapshot) ==
    IF nextSnapshot.data # n.subs[i].snapshot.data
    THEN [subs |-> [n.subs EXCEPT ![i].snapshot = nextSnapshot],
          reread |-> n.reread \cup {n.subs[i].id},
          calls |-> Append(n.calls, [sub |-> n.subs[i].id,
                                     snapshot |-> nextSnapshot]),
          owners |-> Append(n.owners, n.subs[i].snapshot.owner)]
    ELSE [n EXCEPT !.reread = n.reread \cup {n.subs[i].id}]

\* the end of _updateSubscription: the snapshot is stored, and the callback
\* invoked when its data is not the data of the previous snapshot
storeSnapshot(n, i, nextSnapshot) ==
    [subs |-> [n.subs EXCEPT ![i].snapshot = nextSnapshot],
     reread |-> n.reread \cup {n.subs[i].id},
     calls |-> IF nextSnapshot.data # n.subs[i].snapshot.data
               THEN Append(n.calls, [sub |-> n.subs[i].id,
                                     snapshot |-> nextSnapshot])
               ELSE n.calls,
     owners |-> IF nextSnapshot.data # n.subs[i].snapshot.data
                THEN Append(n.owners, n.subs[i].snapshot.owner)
                ELSE n.owners]

\* _updateSubscription
updateSubscription(n, i, src, updated) ==
    IF ~hasOverlappingIDs(n.subs[i].snapshot, updated) THEN n
    ELSE storeSnapshot(n, i,
                       recycled(n.subs[i].snapshot,
                                Read(src, n.subs[i].snapshot.selector)))

RECURSIVE notifyFrom(_, _, _, _)
notifyFrom(n, i, src, updated) ==
    IF i > Len(n.subs) THEN n
    ELSE notifyFrom(updateSubscription(n, i, src, updated), i + 1, src,
                    updated)

notify(src, updated, subs) ==
    notifyFrom([subs |-> subs, reread |-> {}, calls |-> <<>>,
                owners |-> <<>>], 1, src, updated)

\* notify() whose callbacks call run() of the publish queue.  run() and
\* notify() have no test for a call in progress, and run() has emptied the
\* queue and reset _pendingBackupRebase before it calls notify(), so the
\* nested run() goes through its steps with nothing to do and calls
\* notify() again, with the _updatedRecordIDs of the outer call; that nested
\* notify() resets them (558), and the outer loop goes on with {}.
\* The result is [n, nested]: nested counts the nested run() executions.
RECURSIVE notifyReentrant(_, _, _, _, _)
RECURSIVE afterCallback(_, _, _, _, _, _)
RECURSIVE resumeNotify(_, _, _)
notifyReentrant(n, nested, i, src, updated) ==
    IF i > Len(n.subs) THEN [n |-> n, nested |-> nested]
    ELSE afterCallback(n, updateSubscription(n, i, src, updated), nested, i,
                       src, updated)

\* m is n after _updateSubscription(i): a callback that was invoked has
\* called run()
afterCallback(n, m, nested, i, src, updated) ==
    IF Len(m.calls) = Len(n.calls)
    THEN notifyReentrant(m, nested, i + 1, src, updated)
    ELSE resumeNotify(notifyReentrant(m, nested + 1, 1, src, updated), i,
                      src)

\* the outer forEach goes on after the nested run() has returned
resumeNotify(r, i, src) == notifyReentrant(r.n, r.nested, i + 1, src, {})

(***************************************************************************)
(* RelayPublishQueue.run() and its steps.  A store is [src, upd].          *)
(***************************************************************************)
NewTx(sink, bk) == [sink |-> sink, backup |-> bk, threw |-> FALSE]

\* the handle field payloads, where a handle without a handler is skipped
RECURSIVE runHandlersSkipMissing(_, _, _)
runHandlersSkipMissing(tx, base, handles) ==
    IF handles = <<>> \/ tx.threw THEN tx
    ELSE IF Head(handles).handle \notin RegisteredHandles
    THEN runHandlersSkipMissing(tx, base, Tail(handles))
    ELSE runHandlersSkipMissing(
             ApplyOps(tx, base, Head(handles).ops, FALSE), base,
             Tail(handles))

\* the handle field payloads: a handle without a handler is an error
RECURSIVE runHandlers(_, _, _)
runHandlers(tx, base, handles) ==
    IF handles = <<>> \/ tx.threw THEN tx
    ELSE IF Head(handles).handle \notin RegisteredHandles THEN Threw(tx)
    ELSE runHandlers(ApplyOps(tx, base, Head(handles).ops, FALSE), base,
                     Tail(handles))

\* the updater of the payload, called as it is
runPayloadUpdater(tx, base, payload) ==
    IF tx.threw \/ ~payload.hasUpdater THEN tx
    ELSE ApplyOps(tx, base, payload.ops, FALSE)

\* _getSourceFromPayload: the mutator writes into the payload's own source;
\* neither the handlers nor the updater are guarded
getSourceFromPayload(base, payload) ==
    runPayloadUpdater(runHandlers(NewTx(payload.source, EmptySource), base,
                                  payload.handles),
                      base, payload)

\* _commitData that publishes the entries from the last to the first
RECURSIVE commitDataLastFirst(_, _, _)
commitDataLastFirst(store, pd, i) ==
    IF i > Len(pd) THEN [store |-> store, pd |-> <<>>, threw |-> FALSE]
    ELSE commitDataLastFirst(
             updateTargetFromSource(
                 store,
                 getSourceFromPayload(store.src, pd[Len(pd) + 1 - i]).sink),
             pd, i + 1)

\* _commitData, from entry i on: [store, pd, threw]
RECURSIVE commitDataFrom(_, _, _)
RECURSIVE publishPayload(_, _, _, _)
commitDataFrom(store, pd, i) ==
    IF i > Len(pd) THEN [store |-> store, pd |-> <<>>, threw |-> FALSE]
    ELSE IF pd[i].kind = "payload"
    THEN publishPayload(store, pd, i, getSourceFromPayload(store.src, pd[i]))
    ELSE commitDataFrom(updateTargetFromSource(store, pd[i].source), pd,
                        i + 1)

\* publish the source of payload i, which the mutator tx wrote into; an
\* error leaves _commitData before the publish
publishPayload(store, pd, i, tx) ==
    IF tx.threw
    THEN [store |-> store, pd |-> [pd EXCEPT ![i].source = tx.sink],
          threw |-> TRUE]
    ELSE commitDataFrom(updateTargetFromSource(store, tx.sink),
                        [pd EXCEPT ![i].source = tx.sink], i + 1)

\* _commitUpdaters that calls the updaters without the guard
RECURSIVE runUpdatersUnguarded(_, _, _)
runUpdatersUnguarded(tx, base, updaters) ==
    IF updaters = <<>> \/ tx.threw THEN tx
    ELSE runUpdatersUnguarded(
             ApplyOps(tx, base, StoreUpdater(Head(updaters)), FALSE),
             base, Tail(updaters))

\* _commitUpdaters: one sink for all updaters, each guarded
RECURSIVE runUpdaters(_, _, _)
runUpdaters(tx, base, updaters) ==
    IF updaters = <<>> \/ tx.threw THEN tx
    ELSE runUpdaters(applyWithGuard(tx, base, StoreUpdater(Head(updaters)),
                                    FALSE),
                     base, Tail(updaters))

\* the end of _commitUpdaters: publish the sink, clear _pendingUpdaters
publishUpdaters(store, updaters, tx) ==
    IF tx.threw
    THEN [store |-> store, updaters |-> updaters, threw |-> TRUE]
    ELSE [store |-> updateTargetFromSource(store, tx.sink),
          updaters |-> <<>>, threw |-> FALSE]

\* [store, updaters, threw]
commitUpdaters(store, updaters) ==
    IF updaters = <<>>
    THEN [store |-> store, updaters |-> updaters, threw |-> FALSE]
    ELSE publishUpdaters(store, updaters,
                         runUpdaters(NewTx(EmptySource, EmptySource),
                                     store.src, updaters))

\* the updater of an optimistic update, under the guard
runOptimisticUpdater(tx, base, u, hasBackup) ==
    IF tx.threw THEN tx
    ELSE applyWithGuard(tx, base, OptimisticUpdate(u).ops, hasBackup)

\* one optimistic update, by variant: store.commitPayload or publishSource
\* first, then the updater under the guard
runOptimisticUpdate(tx, base, u, hasBackup) ==
    runOptimisticUpdater(ApplyOps(tx, base, OptimisticUpdate(u).pre,
                                  hasBackup),
                         base, u, hasBackup)

\* count an update that ran to its end
Ran(tx) == IF tx.threw THEN tx ELSE [tx EXCEPT !.ran = tx.ran + 1]

\* the updates from the last to the first
RECURSIVE runOptimisticUpdatesLastFirst(_, _, _, _)
runOptimisticUpdatesLastFirst(tx, base, updates, hasBackup) ==
    IF updates = <<>> \/ tx.threw THEN tx
    ELSE runOptimisticUpdatesLastFirst(
             Ran(runOptimisticUpdate(
                     [tx EXCEPT !.log = Append(tx.log, updates[Len(updates)])],
                     base, updates[Len(updates)], hasBackup)),
             base, SubSeq(updates, 1, Len(updates) - 1), hasBackup)

\* the updates in order; `ran` counts those that ran to their end, `log`
\* holds those whose execution began
RECURSIVE runOptimisticUpdates(_, _, _, _)
runOptimisticUpdates(tx, base, updates, hasBackup) ==
    IF updates = <<>> \/ tx.threw THEN tx
    ELSE runOptimisticUpdates(
             Ran(runOptimisticUpdate(
                     [tx EXCEPT !.log = Append(tx.log, Head(updates))],
                     base, Head(updates), hasBackup)),
             base, Tail(updates), hasBackup)

OptTx(bk) ==
    [sink |-> EmptySource, backup |-> bk, threw |-> FALSE, ran |-> 0,
     log |-> <<>>]

\* _appliedOptimisticUpdates.add for each of the updates, in order: a Set
\* keeps an element it has already at its place
AddAll(applied, updates) ==
    applied \o SelectSeq(updates, LAMBDA x : x \notin Range(applied))

\* the end of _applyUpdates that does not clear the pending set
publishUpdatesKeepsPending(store, pending, applied, tx) ==
    IF tx.threw
    THEN [store |-> store, backup |-> tx.backup, pending |-> pending,
          applied |-> AddAll(applied, SubSeq(pending, 1, tx.ran)),
          threw |-> TRUE, executed |-> Range(tx.log),
          executions |-> tx.log]
    ELSE [store |-> updateTargetFromSource(store, tx.sink),
          backup |-> tx.backup, pending |-> pending,
          applied |-> AddAll(applied, pending), threw |-> FALSE,
          executed |-> Range(tx.log), executions |-> tx.log]

\* the end of _applyUpdates: the updates that ran are in the applied set;
\* without an error the pending set is cleared and the sink published
publishUpdates(store, pending, applied, tx) ==
    IF tx.threw
    THEN [store |-> store, backup |-> tx.backup, pending |-> pending,
          applied |-> AddAll(applied, SubSeq(pending, 1, tx.ran)),
          threw |-> TRUE, executed |-> Range(tx.log),
          executions |-> tx.log]
    ELSE [store |-> updateTargetFromSource(store, tx.sink),
          backup |-> tx.backup, pending |-> <<>>,
          applied |-> AddAll(applied, pending), threw |-> FALSE,
          executed |-> Range(tx.log), executions |-> tx.log]

\* the pending updates of _applyUpdates, after the rebase left the mutator tx
applyPending(store, pending, applied, tx) ==
    IF tx.threw
    THEN [store |-> store, backup |-> tx.backup, pending |-> pending,
          applied |-> applied, threw |-> TRUE, executed |-> Range(tx.log),
          executions |-> tx.log]
    ELSE publishUpdates(store, pending, applied,
                        runOptimisticUpdates([tx EXCEPT !.ran = 0],
                                             store.src, pending, TRUE))

\* the rebase of _applyUpdates: the applied updates run again
rebaseApplied(store, bk, rebase, applied) ==
    IF rebase /\ applied # <<>>
    THEN runOptimisticUpdates(OptTx(bk), store.src, applied, TRUE)
    ELSE OptTx(bk)

\* _applyUpdates: [store, backup, pending, applied, threw]
applyUpdates(store, bk, rebase, pending, applied) ==
    IF pending # <<>> \/ (rebase /\ applied # <<>>)
    THEN applyPending(store, pending, applied,
                      rebaseApplied(store, bk, rebase, applied))
    ELSE [store |-> store, backup |-> bk, pending |-> pending,
          applied |-> applied, threw |-> FALSE, executed |-> {},
          executions |-> <<>>]

\* the first step of run(): publish the backup and reset it
undoOptimistic(store, bk, rebase) ==
    IF rebase /\ size(bk) > 0
    THEN [store |-> updateTargetFromSource(store, bk), backup |-> EmptySource]
    ELSE [store |-> store, backup |-> bk]

\* run() that takes a hold whenever updates are applied, without looking at
\* the hold it has
reconcileHoldAlwaysAcquires(g, hold, applied) ==
    IF Len(applied) > 0
    THEN [g |-> holdGC(g), hold |-> TRUE]
    ELSE IF hold THEN [g |-> holdDispose(g), hold |-> FALSE]
         ELSE [g |-> g, hold |-> hold]

\* the GC hold of the queue after run(): [g, hold]
reconcileHold(g, hold, applied) ==
    IF Len(applied) > 0
    THEN IF ~hold THEN [g |-> holdGC(g), hold |-> TRUE]
         ELSE [g |-> g, hold |-> hold]
    ELSE IF hold THEN [g |-> holdDispose(g), hold |-> FALSE]
         ELSE [g |-> g, hold |-> hold]

\* the authoritative source after the updaters of this run
authUpdaters(a) ==
    IF a.threw THEN a.store.src
    ELSE commitUpdaters(a.store, pendingUpdaters).store.src

\* the source with the authoritative writes of this run only
authAfterRun ==
    authUpdaters(commitDataFrom([src |-> authSource, upd |-> {}],
                                pendingData, 1))

\* the source that results from running the updates on top of base
withOptimistic(base, updates) ==
    updateTargetFromSource(
        [src |-> base, upd |-> {}],
        runOptimisticUpdates(OptTx(EmptySource), base, updates,
                             FALSE).sink).src

\* run(): everything that was queued is executed and published.  The
\* result of each step is bound once: u the undo, d _commitData,
\* c _commitUpdaters, a _applyUpdates, h the GC hold, n notify.  With
\* reentrant, the subscription callbacks call run() themselves.
runWith(reentrant) ==
    \E rebase \in {pendingBackupRebase} :
    \E u \in {undoOptimistic([src |-> recordSource,
                              upd |-> updatedRecordIDs], backup, rebase)} :
    \E d \in {commitDataFrom(u.store, pendingData, 1)} :
    \E c \in {IF d.threw
              THEN [store |-> d.store, updaters |-> pendingUpdaters,
                    threw |-> TRUE]
              ELSE commitUpdaters(d.store, pendingUpdaters)} :
    \E a \in {IF c.threw
              THEN [store |-> c.store, backup |-> u.backup,
                    pending |-> pendingOptimisticUpdates,
                    applied |-> appliedOptimisticUpdates, threw |-> TRUE,
                    executed |-> {}, executions |-> <<>>]
              ELSE applyUpdates(c.store, u.backup, rebase,
                                pendingOptimisticUpdates,
                                appliedOptimisticUpdates)} :
    \E h \in {reconcileHold(GCState, gcHold, a.applied)} :
    \E r \in {IF reentrant
              THEN notifyReentrant([subs |-> subscriptions, reread |-> {},
                                    calls |-> <<>>, owners |-> <<>>],
                                   0, 1, a.store.src, a.store.upd)
              ELSE [n |-> notify(a.store.src, a.store.upd, subscriptions),
                    nested |-> 0]} :
    \E n \in {r.n} :
        /\ lastOp' = "run"
        /\ lastRun' = [threw |-> a.threw,
                       rebase |-> rebase,
                       authWork |-> pendingData # <<>>
                                    \/ pendingUpdaters # <<>>,
                       appliedBefore |-> Len(appliedOptimisticUpdates),
                       reverted |-> lastRun.pendingRevert,
                       undid |-> rebase /\ size(backup) > 0,
                       pendingRevert |-> a.threw /\ lastRun.pendingRevert,
                       executed |-> a.executed,
                       executions |-> a.executions,
                       nested |-> IF a.threw THEN 0 ELSE r.nested]
        /\ authSource' = authAfterRun
        /\ lastGC' = NoGC
        /\ UNCHANGED <<roots, index, holds, retains, subIndex>>
        /\ resolver' = IF a.threw THEN resolver
                       ELSE deliver([resolver EXCEPT !.called = 0, !.fresh = FALSE,
                                                     !.lookups = 0,
                                                     !.disposes = 0],
                                    n.calls, 1)
        /\ recordSource' = a.store.src
        /\ backup' = a.backup
        /\ pendingData' = d.pd
        /\ pendingUpdaters' = c.updaters
        /\ pendingOptimisticUpdates' = a.pending
        /\ appliedOptimisticUpdates' = a.applied
        /\ IF a.threw
           THEN \* an error leaves run() where it was raised
                /\ updatedRecordIDs' = a.store.upd
                /\ undo' = NoUndo
                /\ lastNotify' = NoNotify
                /\ UNCHANGED <<subscriptions, gcHoldCounter, shouldScheduleGC,
                               hasScheduledGC, gcThunks,
                               pendingBackupRebase, gcHold,
                               queueHoldCount>>
           ELSE /\ updatedRecordIDs' = {}
                /\ subscriptions' = n.subs
                /\ SetGCState(h.g)
                /\ pendingBackupRebase' = FALSE
                /\ gcHold' = h.hold
                /\ queueHoldCount' =
                       queueHoldCount
                       + (IF h.g.counter > gcHoldCounter THEN 1 ELSE 0)
                       - (IF gcHold /\ ~h.hold THEN 1 ELSE 0)
                /\ lastNotify' = [updated |-> a.store.upd,
                                  reread |-> n.reread,
                                  calls |-> n.calls,
                                  owners |-> n.owners,
                                  before |-> subscriptions]
                /\ undo' = CASE undo.phase = "tracking" ->
                                  [undo EXCEPT !.dirty =
                                      undo.dirty \/ a.store.src # undo.src]
                             [] undo.phase = "reverted" ->
                                  [undo EXCEPT !.phase = "done"]
                             [] OTHER -> NoUndo

run == runWith(FALSE)

\* run() while the subscription callbacks call run()
runReentrant == runWith(TRUE)

(***************************************************************************)
(* RelayModernStore: the operations called by the users of the store and   *)
(* by the GC scheduler.                                                    *)
(***************************************************************************)
\* retain(selector)
retain(selector) ==
    /\ index < MaxRetain
    /\ roots' = roots \cup {<<index, selector>>}
    /\ index' = index + 1
    /\ retains' = Append(retains, "live")
    /\ Observed("store", FALSE)
    /\ UNCHANGED <<recordSource, updatedRecordIDs, subscriptions,
                   gcHoldCounter, shouldScheduleGC, hasScheduledGC,
                   gcThunks, queueVars, holds, subIndex, resolver, authSource, undo,
                   queueHoldCount>>

\* dispose() of a retain that deletes the roots of its selector
retainDisposeBySelector(i) ==
    /\ i < index
    /\ roots' = {r \in roots :
                    \A q \in roots : q[1] = i => r[2] # q[2]}
    /\ retains' = [retains EXCEPT ![i + 1] = "disposed"]
    /\ SetGCState(scheduleGC(GCState))
    /\ Observed("store", FALSE)
    /\ UNCHANGED <<recordSource, updatedRecordIDs, index, subscriptions,
                   queueVars, holds, subIndex, resolver, authSource, undo,
                   queueHoldCount>>

\* dispose() of the disposable of the retain() call number i
retainDispose(i) ==
    /\ i < index
    /\ roots' = {r \in roots : r[1] # i}
    /\ retains' = [retains EXCEPT ![i + 1] = "disposed"]
    /\ SetGCState(scheduleGC(GCState))
    /\ Observed("store", FALSE)
    /\ UNCHANGED <<recordSource, updatedRecordIDs, index, subscriptions,
                   queueVars, holds, subIndex, resolver, authSource, undo,
                   queueHoldCount>>

\* holdGC() called by a user of the store
userHoldGC ==
    /\ Len(holds) < MaxHolds
    /\ holds' = Append(holds, "live")
    /\ SetGCState(holdGC(GCState))
    /\ Observed("store", FALSE)
    /\ UNCHANGED <<recordSource, updatedRecordIDs, roots, index,
                   subscriptions, queueVars, retains, subIndex, resolver, authSource,
                   undo, queueHoldCount>>

\* dispose() of a user's hold; the disposable can be disposed again
userHoldDispose(h) ==
    /\ h \in DOMAIN holds
    /\ holds[h] \in {"live", "disposed"}
    /\ holds' = [holds EXCEPT ![h] = IF holds[h] = "live" THEN "disposed"
                                     ELSE "disposedAgain"]
    /\ SetGCState(holdDispose(GCState))
    /\ Observed("store", FALSE)
    /\ UNCHANGED <<recordSource, updatedRecordIDs, roots, index,
                   subscriptions, queueVars, retains, subIndex, resolver, authSource,
                   undo, queueHoldCount>>

\* the records that RelayReferenceMarker marks from the retained roots
References(src, rs) == UNION {Mark(src, r[2]) : r \in rs}

\* __gc without the short-circuit that clears the source when nothing is
\* referenced
gcWithoutClear(src, rs) ==
    IF References(src, rs) = {} THEN src
    ELSE [id \in DataIDs |->
            IF id \notin References(src, rs) THEN Absent ELSE src[id]]

\* __gc
gc(src, rs) ==
    IF References(src, rs) = {} THEN EmptySource
    ELSE [id \in DataIDs |->
            IF id \notin References(src, rs) THEN Absent ELSE src[id]]

\* the scheduler runs the thunk that _scheduleGC gave it
runScheduledGC ==
    /\ gcThunks > 0
    /\ recordSource' = gc(recordSource, roots)
    /\ hasScheduledGC' = FALSE
    /\ gcThunks' = gcThunks - 1
    /\ lastGC' = [marked |-> References(recordSource, roots),
                  held |-> gcHoldCounter > 0,
                  before |-> recordSource]
    /\ authSource' = [id \in DataIDs |->
                        IF recordSource'[id].st = "absent" THEN Absent
                        ELSE authSource[id]]
    /\ undo' = NoUndo
    /\ lastOp' = "gc"
    /\ lastRun' = [NoRun EXCEPT !.pendingRevert = lastRun.pendingRevert]
    /\ lastNotify' = NoNotify
    /\ UNCHANGED <<updatedRecordIDs, roots, index, subscriptions,
                   gcHoldCounter, shouldScheduleGC, queueVars, callerVars,
                   queueHoldCount>>

\* lookup(selector, owner) followed by subscribe(snapshot, callback)
subscribe(selector) ==
    /\ subIndex < MaxSubs
    /\ subIndex' = subIndex + 1
    /\ subscriptions' = Append(subscriptions,
                               [id |-> subIndex + 1,
                                snapshot |-> Read(recordSource, selector)])
    /\ Observed("store", FALSE)
    /\ UNCHANGED <<recordSource, updatedRecordIDs, roots, index,
                   gcHoldCounter, shouldScheduleGC, hasScheduledGC,
                   gcThunks, queueVars, holds, retains, resolver,
                   authSource, undo, queueHoldCount>>

\* dispose() of a subscription that leaves it in _subscriptions
subscriptionDisposeKeeps(i) ==
    /\ \E k \in DOMAIN subscriptions : subscriptions[k].id = i
    /\ Observed("store", FALSE)
    /\ UNCHANGED <<storeVars, queueVars, callerVars, authSource, undo,
                   queueHoldCount>>

\* dispose() of a subscription
subscriptionDispose(i) ==
    /\ \E k \in DOMAIN subscriptions : subscriptions[k].id = i
    /\ subscriptions' = SelectSeq(subscriptions, LAMBDA x : x.id # i)
    /\ Observed("store", FALSE)
    /\ UNCHANGED <<recordSource, updatedRecordIDs, roots, index,
                   gcHoldCounter, shouldScheduleGC, hasScheduledGC,
                   gcThunks, queueVars, callerVars, authSource, undo, queueHoldCount>>

\* the entries a published source can hold for a dataID
EntryIDs == {"none", "null", "unpublish", "real", "opti", "linked"}

EntryOf(e) ==
    CASE e = "none" -> Absent
      [] e = "null" -> Tomb
      [] e = "unpublish" -> Unpublish
      [] e = "real" -> WithName("Real")
      [] e = "opti" -> WithName("Opti")
      [] OTHER -> Rec([NoFields EXCEPT !["friend"] = "2"])

\* the source with entry e1 for record 1 and e2 for record 2
SourceFrom(e1, e2) == [id \in DataIDs |-> EntryOf(IF id = "1" THEN e1 ELSE e2)]

\* publish(source), called on the store
publish(e1, e2) ==
    \E st \in {updateTargetFromSource([src |-> recordSource,
                                       upd |-> updatedRecordIDs],
                                      SourceFrom(e1, e2))} :
        /\ recordSource' = st.src
        /\ updatedRecordIDs' = st.upd
        /\ authSource' = st.src
        /\ undo' = NoUndo
        /\ Observed("store", FALSE)
        /\ UNCHANGED <<roots, index, subscriptions, gcHoldCounter,
                       shouldScheduleGC, hasScheduledGC, gcThunks,
                       queueVars,
                       callerVars, queueHoldCount>>

\* notify(), called on the store
storeNotify ==
    \E n \in {notify(recordSource, updatedRecordIDs, subscriptions)} :
        /\ subscriptions' = n.subs
        /\ updatedRecordIDs' = {}
        /\ lastOp' = "notify"
        /\ lastRun' = NoRun
        /\ lastGC' = NoGC
        /\ lastNotify' = [updated |-> updatedRecordIDs,
                          reread |-> n.reread,
                          calls |-> n.calls,
                          owners |-> n.owners,
                          before |-> subscriptions]
        /\ resolver' = deliver([resolver EXCEPT !.called = 0, !.fresh = FALSE,
                                                     !.lookups = 0,
                                                     !.disposes = 0],
                                    n.calls, 1)
        /\ UNCHANGED <<recordSource, roots, index, gcHoldCounter,
                       shouldScheduleGC, hasScheduledGC, gcThunks,
                       queueVars, holds, retains, subIndex,
                       authSource, undo, queueHoldCount>>

(***************************************************************************)
(* The calls of a container on its RelayModernFragmentSpecResolver.        *)
(***************************************************************************)
\* the selectors of the resolvers of r
SelectorsOf(r) ==
    [user |-> <<r.user.dataID, r.user.variables>>,
     made |-> r.users.made,
     users |-> [ii \in DOMAIN r.users.items |->
                   <<r.users.items[ii].dataID,
                     r.users.items[ii].variables>>]]

ResolverEnvironment ==
    [src |-> recordSource, subs |-> subscriptions, lookups |-> 0,
     disposes |-> 0]

\* the state after a call has left the resolver x.r and the environment
\* x.e; changed records that a selector, a subscription or the data of a
\* resolver has changed since the last resolve()
SetResolver(x) ==
    /\ resolver' = [x.r EXCEPT
                       !.lookups = x.e.lookups,
                       !.disposes = x.e.disposes,
                       !.changed = \/ x.r.changed
                                   \/ ~resolver.made
                                   \/ x.e.lookups > 0
                                   \/ x.e.disposes > 0
                                   \/ SelectorsOf(x.r)
                                      # SelectorsOf(resolver)]
    /\ subscriptions' = x.e.subs
    /\ Observed("resolver", FALSE)
    /\ UNCHANGED <<recordSource, updatedRecordIDs, roots, index,
                   gcHoldCounter, shouldScheduleGC, hasScheduledGC,
                   gcThunks, queueVars, holds, retains, subIndex,
                   authSource, undo, queueHoldCount>>

\* new RelayModernFragmentSpecResolver(context, fragments, props, callback)
newResolver(pu, pl) ==
    /\ ~resolver.made
    /\ \E x \in {resolverSetProps(resolver, ResolverEnvironment, pu, pl)} :
           SetResolver(x)

setProps(pu, pl) ==
    /\ resolver.made
    /\ \E x \in {resolverSetProps(resolver, ResolverEnvironment, pu, pl)} :
           SetResolver(x)

setVariables(variables) ==
    /\ resolver.made
    /\ \E x \in {resolverSetVariables(resolver, ResolverEnvironment,
                                      variables)} :
           SetResolver(x)

resolve ==
    /\ resolver.made
    /\ \E l \in {IF resolver.stale /\ resolver.users.made
                 THEN SelectorListResolverResolve(resolver.users)
                 ELSE resolver.users} :
           SetResolver([r |-> resolverResolve(resolver, l),
                        e |-> ResolverEnvironment])

dispose ==
    /\ resolver.made
    /\ \E x \in {resolverDispose(resolver, ResolverEnvironment)} :
           SetResolver(x)

(***************************************************************************)
(* Specifications.                                                         *)
(***************************************************************************)
\* the optimistic updates used together with authoritative commits
RebaseUpdateIDs == {"uCreate", "uDelete", "uThrow"}

\* the publish queue over a store without roots and subscriptions
Next ==
    \/ \E u \in RebaseUpdateIDs : applyUpdate(u)
    \/ \E u \in RebaseUpdateIDs : revertUpdate(u)
    \/ revertAll
    \/ \E p \in PayloadIDs : commitPayload(p)
    \/ \E x \in {"sTwo"} : commitSource(x)
    \/ \E c \in StoreUpdaterIDs : commitUpdate(c)
    \/ run

Spec == Init /\ [][Next]_vars

\* optimistic updates only, on stores constructed with any of these sources
UndoInitialSources ==
    InitialSources \cup
    {[EmptySource EXCEPT !["1"] = Tomb, !["2"] = WithName("Real")],
     [EmptySource EXCEPT
        !["1"] = Rec([name |-> "Real", friend |-> "2"]),
        !["2"] = WithName("Real")]}

UndoInit ==
    /\ recordSource \in UndoInitialSources
    /\ updatedRecordIDs = {}
    /\ roots = {}
    /\ index = 0
    /\ subscriptions = <<>>
    /\ gcHoldCounter = 0
    /\ shouldScheduleGC = FALSE
    /\ hasScheduledGC = FALSE
    /\ gcThunks = 0
    /\ backup = EmptySource
    /\ pendingBackupRebase = FALSE
    /\ pendingData = <<>>
    /\ pendingUpdaters = <<>>
    /\ pendingOptimisticUpdates = <<>>
    /\ appliedOptimisticUpdates = <<>>
    /\ gcHold = FALSE
    /\ holds = <<>>
    /\ retains = <<>>
    /\ subIndex = 0
    /\ resolver = NoResolver
    /\ lastOp = "init"
    /\ lastRun = NoRun
    /\ lastNotify = NoNotify
    /\ lastGC = NoGC
    /\ authSource = recordSource
    /\ undo = NoUndo
    /\ queueHoldCount = 0

UndoNext ==
    \/ \E u \in OptimisticUpdateIDs : applyUpdate(u)
    \/ \E u \in OptimisticUpdateIDs : revertUpdate(u)
    \/ revertAll
    \/ run

SpecUndo == UndoInit /\ [][UndoNext]_vars

\* the store with retained roots, GC holds and the GC scheduler, fed by a
\* queue with one optimistic update and one authoritative payload
GCNext ==
    \/ \E u \in {"uSource"} : applyUpdate(u)
    \/ revertAll
    \/ \E p \in {"pUpdater"} : commitPayload(p)
    \/ run
    \/ \E selector \in DataIDs : retain(selector)
    \/ \E i \in 0..(MaxRetain - 1) : retainDispose(i)
    \/ userHoldGC
    \/ \E h \in 1..MaxHolds : userHoldDispose(h)
    \/ runScheduledGC

SpecGC == Init /\ [][GCNext]_vars

\* the store with subscriptions, fed by the queue
SubsNext ==
    \/ \E u \in {"uCreate"} : applyUpdate(u)
    \/ \E u \in {"uCreate"} : revertUpdate(u)
    \/ revertAll
    \/ \E p \in {"pUpdater"} : commitPayload(p)
    \/ \E x \in SourceIDs : commitSource(x)
    \/ \E c \in {"cName"} : commitUpdate(c)
    \/ run
    \/ \E selector \in DataIDs : subscribe(selector)
    \/ \E i \in 1..MaxSubs : subscriptionDispose(i)

SpecSubs == Init /\ [][SubsNext]_vars

(***************************************************************************)
(* Properties.                                                             *)
(***************************************************************************)
\* C1: after any sequence of applyUpdate calls and runs without a
\* non-optimistic commit, revertAll() followed by run() leaves the canonical
\* source exactly as it was before the first applyUpdate.
OptimisticUndoExact == undo.phase = "done" => recordSource = undo.src

\* an optimistic update changed the source before it was reverted
WitnessOptimisticUndoExact == undo.phase = "done" /\ undo.dirty

\* C2: a run() that commits authoritative data while optimistic updates
\* are applied leaves the source equal to the authoritative source with the
\* still-applied optimistic updates run again on top of it.
RebasePreservesAuthoritative ==
    (lastOp = "run" /\ ~lastRun.threw /\ lastRun.authWork
        /\ lastRun.appliedBefore > 0)
    => recordSource = withOptimistic(authSource, appliedOptimisticUpdates)

\* C3: a run() after revertUpdate of an applied update leaves the source as
\* if only the remaining updates had been applied, in their order, on top of
\* the authoritative source.
RevertRebasesOthers ==
    (lastOp = "run" /\ ~lastRun.threw /\ lastRun.reverted)
    => recordSource = withOptimistic(authSource, appliedOptimisticUpdates)

\* C4: __gc never executes while the hold counter of the store is positive.
GCSuppressedWhileHeld == lastOp = "gc" => ~lastGC.held

CallsFor(i) ==
    SelectSeq(lastNotify.calls, LAMBDA c : c.sub = lastNotify.before[i].id)

Notified == lastOp = "run" /\ ~lastRun.threw

\* C6: notify leaves a subscription untouched when the seenRecords of its
\* snapshot share no dataID with the updated IDs: it is not read again, its
\* callback is not invoked and its snapshot stays as it is.
FiresOnlyOnOverlap ==
    Notified =>
        \A i \in DOMAIN lastNotify.before :
            ~hasOverlappingIDs(lastNotify.before[i].snapshot,
                               lastNotify.updated)
            => /\ subscriptions[i] = lastNotify.before[i]
               /\ lastNotify.before[i].id \notin lastNotify.reread
               /\ CallsFor(i) = <<>>

\* a notify with updated IDs that a subscription has not seen
WitnessFiresOnlyOnOverlap ==
    /\ Notified
    /\ lastNotify.updated # {}
    /\ \E i \in DOMAIN lastNotify.before :
          ~hasOverlappingIDs(lastNotify.before[i].snapshot,
                             lastNotify.updated)

\* C7: for a subscription that has seen an updated record, notify invokes
\* the callback once with the new snapshot if the data read again differs
\* from the previous data, and does not invoke it if the data is equal.
NoSpuriousFire ==
    Notified =>
        \A i \in DOMAIN lastNotify.before :
            LET old == lastNotify.before[i].snapshot
                new == Read(recordSource, old.selector)
            IN  hasOverlappingIDs(old, lastNotify.updated)
                => IF new.data = old.data
                   THEN CallsFor(i) = <<>>
                   ELSE CallsFor(i) = <<[sub |-> lastNotify.before[i].id,
                                         snapshot |-> new]>>

\* a notify in which one subscription saw an updated record with equal data
\* and another one saw changed data
WitnessNoSpuriousFire ==
    /\ Notified
    /\ \E i \in DOMAIN lastNotify.before :
          /\ hasOverlappingIDs(lastNotify.before[i].snapshot,
                               lastNotify.updated)
          /\ ReadData(recordSource, lastNotify.before[i].snapshot.selector)
                = lastNotify.before[i].snapshot.data
    /\ lastNotify.calls # <<>>

\* C8: applyUpdate, revertUpdate, revertAll, commitPayload, commitUpdate
\* and commitSource leave the canonical source, the updated IDs, the
\* subscriptions, the backup and the data already queued as they are, and
\* no callback is invoked; only run() changes the store.
DeferredOpsLeaveStore ==
    [][lastOp' = "queued" =>
         /\ UNCHANGED <<recordSource, updatedRecordIDs, subscriptions,
                        backup, gcHoldCounter>>
         /\ lastNotify'.calls = <<>>
         /\ Len(pendingData') >= Len(pendingData)
         /\ SubSeq(pendingData', 1, Len(pendingData)) = pendingData]_vars

\* work of every kind is queued while a subscription is open and the store
\* is not touched yet
WitnessDeferredOpsLeaveStore ==
    /\ lastOp = "queued"
    /\ pendingData # <<>>
    /\ pendingUpdaters # <<>>
    /\ pendingOptimisticUpdates # <<>>
    /\ subscriptions # <<>>
    /\ updatedRecordIDs = {}

\* C9, as stated: whatever user updater throws during run(), run() returns
\* normally.
UpdaterErrorsNeverAbortRun == lastOp = "run" => ~lastRun.threw

\* an updater that always throws is about to run under the guard
GuardedErrorQueued ==
    \/ "cThrow" \in Range(pendingUpdaters)
    \/ "uThrow" \in Range(pendingOptimisticUpdates)
    \/ pendingBackupRebase /\ "uThrow" \in Range(appliedOptimisticUpdates)

\* the updater of a pending payload always throws
PayloadErrorQueued ==
    \E i \in DOMAIN pendingData :
        /\ pendingData[i].hasUpdater
        /\ \E j \in DOMAIN pendingData[i].ops :
              pendingData[i].ops[j].op = "throw"

\* C9, amended: an error of a commitUpdate updater or of an optimistic
\* updater does not abort run(): run() returns, all queued work is applied,
\* the store is published and notified.  An error of the updater passed with
\* commitPayload is not caught and run() raises it.
GuardedUpdaterErrorsDoNotAbortRun ==
    [][lastOp' = "run" =>
         /\ PayloadErrorQueued <=> lastRun'.threw
         /\ (GuardedErrorQueued /\ ~PayloadErrorQueued) =>
               /\ pendingData' = <<>>
               /\ pendingUpdaters' = <<>>
               /\ pendingOptimisticUpdates' = <<>>
               /\ appliedOptimisticUpdates' =
                      appliedOptimisticUpdates \o pendingOptimisticUpdates
               /\ ~pendingBackupRebase'
               /\ updatedRecordIDs' = {}
               /\ "cThrow" \in Range(pendingUpdaters) =>
                      /\ recordSource'["2"].st = "rec"
                      /\ recordSource'["2"].f["friend"] = "1"]_vars

\* a run() that returned although a store updater and a re-applied
\* optimistic updater threw in it; the writes made before the error are in
\* the store
WitnessGuardedUpdaterErrorsDoNotAbortRun ==
    /\ lastOp = "run"
    /\ ~lastRun.threw
    /\ lastRun.rebase
    /\ lastRun.authWork
    /\ "uThrow" \in Range(appliedOptimisticUpdates)
    /\ recordSource["1"].f["friend"] = "2"

\* C10: after every run() that returns the queue holds a GC hold exactly if
\* optimistic updates are applied, and the queue never has more than one
\* hold on the store.
HoldFollowsApplied ==
    /\ Notified => (gcHold <=> appliedOptimisticUpdates # <<>>)
    /\ queueHoldCount \in {0, 1}
    /\ gcHold <=> queueHoldCount = 1

\* a run() that found updates applied and the hold taken by an earlier run()
WitnessHoldFollowsApplied ==
    /\ Notified
    /\ lastRun.appliedBefore > 0
    /\ appliedOptimisticUpdates # <<>>
    /\ gcHold
    /\ queueHoldCount = 1

\* applyUpdate with both outcomes, reverts and run
ApplyNext ==
    \/ \E u \in RebaseUpdateIDs : applyUpdate(u)
    \/ \E u \in RebaseUpdateIDs : applyUpdateThrows(u)
    \/ \E u \in RebaseUpdateIDs : revertUpdate(u)
    \/ revertAll
    \/ run
    \/ \E selector \in {"1"} : subscribe(selector)

SpecApply == Init /\ [][ApplyNext]_vars

\* C11: applyUpdate(u) throws and leaves the pending and the applied set as
\* they were whenever u is already pending or applied; an update joins the
\* pending set only when it was in neither set
DuplicateUpdateRejected ==
    [][/\ lastOp' = "applyUpdateThrew" =>
            /\ pendingOptimisticUpdates' = pendingOptimisticUpdates
            /\ appliedOptimisticUpdates' = appliedOptimisticUpdates
            /\ Range(pendingOptimisticUpdates)
                   \cup Range(appliedOptimisticUpdates) # {}
       /\ Len(pendingOptimisticUpdates') > Len(pendingOptimisticUpdates) =>
            /\ pendingOptimisticUpdates'[Len(pendingOptimisticUpdates')]
                   \notin Range(pendingOptimisticUpdates)
                          \cup Range(appliedOptimisticUpdates)
            /\ pendingOptimisticUpdates' =
                   Append(pendingOptimisticUpdates,
                          pendingOptimisticUpdates'[
                              Len(pendingOptimisticUpdates')])
            /\ appliedOptimisticUpdates' = appliedOptimisticUpdates
      ]_vars

\* a duplicate was rejected while one update is applied and one is pending
WitnessDuplicateUpdateRejected ==
    /\ lastOp = "applyUpdateThrew"
    /\ appliedOptimisticUpdates # <<>>
    /\ pendingOptimisticUpdates # <<>>

\* the optimistic create of record 1, the response naming it, subscribers
ScenarioNext ==
    \/ \E u \in {"uCreate"} : applyUpdate(u)
    \/ \E u \in {"uCreate"} : revertUpdate(u)
    \/ revertAll
    \/ \E p \in {"pReal"} : commitPayload(p)
    \/ run
    \/ \E selector \in DataIDs : subscribe(selector)
    \/ \E i \in 1..MaxSubs : subscriptionDispose(i)

SpecScenario == Init /\ [][ScenarioNext]_vars

\* the state of store and queue at a point of the scenario
ScenarioState(src, bk, pending, applied, pd) ==
    /\ recordSource = src
    /\ backup = bk
    /\ pendingOptimisticUpdates = pending
    /\ appliedOptimisticUpdates = applied
    /\ pendingData = pd
    /\ pendingUpdaters = <<>>

\* every subscriber of record 1 has a snapshot with this name
SubscribersSee(subs, name) ==
    \A k \in DOMAIN subs :
        subs[k].snapshot.selector = "1" =>
            /\ subs[k].snapshot.data.st = "obj"
            /\ subs[k].snapshot.data.name = name

OnlyOpti == [EmptySource EXCEPT !["1"] = WithName("Opti")]

OnlyReal == [EmptySource EXCEPT !["1"] = WithName("Real")]

CreatedOne == [EmptySource EXCEPT !["1"] = Unpublish]

Held == Range(pendingOptimisticUpdates) \cup Range(appliedOptimisticUpdates)

\* C13: an optimistic update removed by revertUpdate or revertAll before the
\* next run() is never executed and never affects the store or a
\* subscriber: the revert takes it out of the queue and leaves the store as
\* it is, run() executes only updates the queue holds, an update enters
\* the queue only by applyUpdate, and a run() with nothing queued changes
\* neither the store nor a subscription
RevertCancelsPending ==
    [][/\ \A u \in OptimisticUpdateIDs :
            ( /\ revertUpdate(u) \/ revertAll
              /\ u \in Range(pendingOptimisticUpdates) )
            => /\ u \notin Held'
               /\ UNCHANGED <<recordSource, updatedRecordIDs, subscriptions,
                              backup>>
       /\ lastOp' = "run" => lastRun'.executed \subseteq Held
       /\ Held' \subseteq Held
          \/ /\ lastOp' = "queued"
             /\ Len(pendingOptimisticUpdates') =
                    Len(pendingOptimisticUpdates) + 1
             /\ appliedOptimisticUpdates' = appliedOptimisticUpdates
       /\ (lastOp' = "run" /\ QueueIsClean)
            => /\ lastRun'.executed = {}
               /\ recordSource' = recordSource
               /\ subscriptions' = subscriptions
               /\ lastNotify'.calls = <<>>
      ]_vars

\* a run() after the updates were reverted with none of them executed,
\* and a subscriber
WitnessRevertCancelsPending ==
    /\ lastOp = "run"
    /\ undo.phase = "done" /\ ~undo.dirty
    /\ lastRun.rebase /\ ~lastRun.undid
    /\ lastRun.executed = {}
    /\ subscriptions # <<>>

\* payloads with handle fields, with and without a handler
HandlePayloadIDs == {"pHandled", "pNoHandler"}

HandlesNext ==
    \/ \E u \in {"uSource"} : applyUpdate(u)
    \/ revertAll
    \/ \E p \in HandlePayloadIDs : commitPayload(p)
    \/ \E c \in {"cName"} : commitUpdate(c)
    \/ run
    \/ \E selector \in DataIDs : subscribe(selector)

SpecHandles == Init /\ [][HandlesNext]_vars

\* the payload has a handle field no handler is provided for
MissingHandler(data) ==
    \E k \in DOMAIN data.handles :
        data.handles[k].handle \notin RegisteredHandles

\* the first entry of _pendingData with a missing handler, or 0
FirstMissingHandler ==
    IF \E i \in DOMAIN pendingData : MissingHandler(pendingData[i])
    THEN CHOOSE i \in DOMAIN pendingData :
             /\ MissingHandler(pendingData[i])
             /\ \A j \in 1..(i - 1) : ~MissingHandler(pendingData[j])
    ELSE 0

\* C14: a pending payload with a handle field without a handler makes
\* run() raise an error; the source is then what the undo of the backup and
\* the entries before that payload made of it, so no record of the payload
\* is published, the payload stays queued and nobody is notified
MissingHandlerIsFatal ==
    [][(lastOp' = "run" /\ FirstMissingHandler > 0) =>
          /\ lastRun'.threw
          /\ recordSource' =
                 commitDataFrom(
                     undoOptimistic([src |-> recordSource,
                                     upd |-> updatedRecordIDs],
                                    backup, pendingBackupRebase).store,
                     SubSeq(pendingData, 1, FirstMissingHandler - 1),
                     1).store.src
          /\ MissingHandler(pendingData'[FirstMissingHandler])
          /\ subscriptions' = subscriptions
      ]_vars

\* run() raised for a payload without handler whose record 2 is absent
WitnessMissingHandlerIsFatal ==
    /\ lastOp = "run" /\ lastRun.threw
    /\ FirstMissingHandler > 0
    /\ recordSource["2"].st = "absent"
    /\ subscriptions # <<>>

\* run() with callbacks that call run() themselves
ReentrantNext ==
    \/ \E u \in {"uCreate"} : applyUpdate(u)
    \/ revertAll
    \/ \E x \in SourceIDs : commitSource(x)
    \/ \E c \in {"cName"} : commitUpdate(c)
    \/ run
    \/ runReentrant
    \/ \E selector \in DataIDs : subscribe(selector)

SpecReentrant == Init /\ [][ReentrantNext]_vars

\* C15: a run() called from inside a subscription callback raises an error
\* instead of executing: no nested run() is ever executed
ReentrantRunRaises == lastOp = "run" => lastRun.nested = 0

\* applyUpdate with well-formed and malformed arguments
MalformedNext ==
    \/ \E u \in {"uCreate"} \cup MalformedUpdateIDs : applyUpdate(u)
    \/ \E u \in {"uCreate"} \cup MalformedUpdateIDs : applyUpdateThrows(u)
    \/ \E u \in {"uCreate"} \cup MalformedUpdateIDs : revertUpdate(u)
    \/ revertAll
    \/ \E c \in {"cName"} : commitUpdate(c)
    \/ run
    \/ \E selector \in {"1"} : subscribe(selector)

SpecMalformed == Init /\ [][MalformedNext]_vars

\* C16: applyUpdate raises an error for an argument that is none of the
\* three variants and adds nothing, so that no malformed update is ever in
\* the pending set when run() is called
MalformedUpdateRejected == MalformedUpdateIDs \cap Held = {}

\* the store alone: publish and notify
PublishNext ==
    \/ \E e1, e2 \in EntryIDs : publish(e1, e2)
    \/ storeNotify

SpecPublish == Init /\ [][PublishNext]_vars

\* the store after publish(source) and notify()
PublishedAndNotified(source) ==
    [src |-> updateTargetFromSource([src |-> recordSource,
                                     upd |-> updatedRecordIDs], source).src,
     upd |-> {}]

\* C17: publishing a source of records, tombstones and unpublish sentinels,
\* calling notify() and publishing the same source again leaves the source
\* of the store as the first publish made it, and the second publish adds
\* no dataID to the updated IDs
IdempotentPublish ==
    \A e1, e2 \in EntryIDs :
        updateTargetFromSource(PublishedAndNotified(SourceFrom(e1, e2)),
                               SourceFrom(e1, e2))
            = PublishedAndNotified(SourceFrom(e1, e2))

\* the indexes of the retains that were not disposed
Undisposed == {i - 1 : i \in {k \in DOMAIN retains : retains[k] = "live"}}

\* the roots are the undisposed retains, one entry each
RootsAreUndisposed ==
    /\ Len(retains) = index
    /\ {r[1] : r \in roots} = Undisposed
    /\ \A r, q \in roots : r[1] = q[1] => r = q

\* C18: the roots are exactly the retains that were not disposed: retain()
\* adds one entry under the next index, which no entry had before; a
\* dispose removes the entry of its own retain and no other, and nothing
\* when it is called again; __gc keeps the records marked from the
\* selectors of exactly these entries
RootsAreExactlyUndisposedRetains ==
    [][/\ RootsAreUndisposed /\ RootsAreUndisposed'
       /\ index' >= index
       /\ index' > index =>
            /\ index' = index + 1
            /\ \E selector \in DataIDs :
                   roots' = roots \cup {<<index, selector>>}
            /\ \A r \in roots : r[1] < index
       /\ index' = index =>
            /\ roots' \subseteq roots
            /\ Cardinality(roots \ roots') <= 1
            /\ \A r \in roots \ roots' :
                   retains[r[1] + 1] = "live" /\ retains'[r[1] + 1] = "disposed"
       /\ lastOp' = "gc" =>
            getRecordIDs(recordSource') =
                getRecordIDs(recordSource)
                \cap UNION {Mark(recordSource, r[2]) : r \in roots}
      ]_vars

\* of two retains one was disposed, and __gc ran with the other as its
\* root and kept its record
WitnessRootsAreExactlyUndisposedRetains ==
    /\ lastOp = "gc"
    /\ index = 2
    /\ Cardinality(roots) = 1
    /\ "disposed" \in Range(retains)
    /\ \E r \in roots : r[2] = "1" /\ recordSource["1"].st = "rec"

\* C19: the scheduler holds at most one GC thunk, which it holds exactly
\* while _hasScheduledGC is set; every trigger of a GC outside a hold (the
\* dispose of a retain, the release of the last hold with a GC requested)
\* leaves one thunk with the scheduler, whether or not one was there; each
\* __gc execution takes that thunk, so that the triggers before it cause
\* one execution and a trigger after it schedules a new thunk
GCIsCoalesced ==
    [][/\ gcThunks' \in {0, 1}
       /\ hasScheduledGC' <=> gcThunks' = 1
       /\ \A i \in 0..(MaxRetain - 1) :
             (retainDispose(i) /\ gcHoldCounter = 0) => gcThunks' = 1
       /\ (gcHoldCounter > 0 /\ gcHoldCounter' = 0 /\ shouldScheduleGC)
             => gcThunks' = 1
       /\ lastOp' = "gc" => gcThunks = 1 /\ gcThunks' = 0
      ]_vars

\* two retains were disposed, __gc has run and no thunk is left
WitnessGCIsCoalesced ==
    /\ lastOp = "gc"
    /\ gcThunks = 0
    /\ Len(retains) = 2
    /\ \A k \in DOMAIN retains : retains[k] = "disposed"

\* the store with its retains and holds, and a scheduler that runs the
\* thunk it was given
GCFairNext ==
    \/ \E selector \in DataIDs : retain(selector)
    \/ \E i \in 0..(MaxRetain - 1) : retainDispose(i)
    \/ userHoldGC
    \/ \E h \in 1..MaxHolds : userHoldDispose(h)
    \/ runScheduledGC

SpecGCFair == Init /\ [][GCFairNext]_vars /\ WF_vars(runScheduledGC)

\* C20: a GC requested during a hold is deferred and not lost: the dispose
\* of a retain while _gcHoldCounter > 0 schedules nothing and leaves the
\* request; the dispose that takes the counter to 0 schedules the GC when
\* one was requested and schedules nothing when none was; and with a
\* scheduler that runs its thunk, a scheduled GC is followed by __gc
DeferredGCIsNotLost ==
    /\ [][/\ \A i \in 0..(MaxRetain - 1) :
                (retainDispose(i) /\ gcHoldCounter > 0)
                => gcThunks' = gcThunks /\ shouldScheduleGC'
          /\ (gcHoldCounter > 0 /\ gcHoldCounter' = 0 /\ shouldScheduleGC)
                => gcThunks' = 1 /\ ~shouldScheduleGC'
          /\ (gcHoldCounter > 0 /\ gcHoldCounter' = 0 /\ ~shouldScheduleGC)
                => gcThunks' = gcThunks /\ ~shouldScheduleGC'
         ]_vars
    /\ (gcThunks > 0) ~> (lastOp = "gc")

\* __gc has run outside a hold after a retain and a hold were disposed
WitnessDeferredGCIsNotLost ==
    /\ lastOp = "gc" /\ ~lastGC.held
    /\ gcHoldCounter = 0 /\ ~shouldScheduleGC
    /\ "disposed" \in Range(retains)
    /\ "disposed" \in Range(holds)

\* C21: the dispose of a subscription takes it out of the subscriptions and
\* changes nothing else, the others stay as they are and are notified as
\* before; a subscription that was taken out never returns, and a notify
\* invokes the callbacks of subscriptions that are still there only
DisposedSubscriptionNeverFires ==
    [][/\ \A i \in 1..MaxSubs :
             subscriptionDispose(i) =>
                /\ subscriptions' =
                       SelectSeq(subscriptions, LAMBDA x : x.id # i)
                /\ UNCHANGED <<recordSource, updatedRecordIDs>>
       /\ {subscriptions'[k].id : k \in DOMAIN subscriptions'}
             \subseteq {subscriptions[k].id : k \in DOMAIN subscriptions}
                       \cup {subIndex + 1}
       /\ subIndex' >= subIndex
       /\ lastOp' = "run" =>
             /\ \A c \in Range(lastNotify'.calls) :
                    c.sub \in {subscriptions[k].id :
                                 k \in DOMAIN subscriptions}
             /\ ~lastRun'.threw =>
                   \A k \in DOMAIN subscriptions :
                       ( /\ hasOverlappingIDs(subscriptions[k].snapshot,
                                              lastNotify'.updated)
                         /\ Read(recordSource',
                                 subscriptions[k].snapshot.selector).data
                               # subscriptions[k].snapshot.data )
                       => \E c \in Range(lastNotify'.calls) :
                              c.sub = subscriptions[k].id
      ]_vars

\* a notify after one of two subscriptions was disposed invoked the
\* callback of the other
WitnessDisposedSubscriptionNeverFires ==
    /\ Notified
    /\ subIndex = 2
    /\ Len(subscriptions) = 1
    /\ Len(lastNotify.before) = 1
    /\ Len(lastNotify.calls) = 1

\* C22: the list that run() returns holds, in the order of the calls, the
\* owner of the snapshot of each subscription whose callback was invoked in
\* that run, one entry for each call, and is empty when none was invoked
RunReturnsOwnersOfFired ==
    Notified =>
        /\ Len(lastNotify.owners) = Len(lastNotify.calls)
        /\ \A k \in DOMAIN lastNotify.calls :
              \E i \in DOMAIN lastNotify.before :
                  /\ lastNotify.before[i].id = lastNotify.calls[k].sub
                  /\ lastNotify.owners[k] = lastNotify.before[i].snapshot.owner
                  /\ CallsFor(i) = <<lastNotify.calls[k]>>

\* a run() in which one subscription was called and another was read again
\* without a call
WitnessRunReturnsOwnersOfFired ==
    /\ Notified
    /\ Len(lastNotify.calls) = 1
    /\ \E i \in DOMAIN lastNotify.before :
          /\ lastNotify.before[i].id \in lastNotify.reread
          /\ CallsFor(i) = <<>>

\* a container with its fragment spec resolver, and changes of the store
ResolverEntryIDs == {"real", "opti"}

\* record 2 is published or left as it is
ResolverOtherEntryIDs == {"none", "real"}

ResolverNext ==
    \/ \E pu \in {"null", "1"} : \E pl \in {"one", "oneTwo", "twoOne"} :
           newResolver(pu, pl)
    \/ setProps("1", "oneTwo")
    \/ resolve
    \/ dispose
    \/ \E e1 \in ResolverEntryIDs : \E e2 \in ResolverOtherEntryIDs :
           publish(e1, e2)
    \/ storeNotify

SpecResolver == Init /\ [][ResolverNext]_vars

\* the resolvers of r that hold a subscription: 0 is the resolver of the key
\* user, and ii the resolver of item ii of the key users
Subscribed(r) ==
    (IF r.user.sub # 0 THEN {0} ELSE {})
    \cup {ii \in DOMAIN r.users.items : r.users.items[ii].sub # 0}

SelectorResolverOf(r, k) == IF k = 0 THEN r.user ELSE r.users.items[k]

\* C23: when notify() finds that the data of a fragment that the resolver is
\* subscribed to has changed, for the singular prop or an item of the plural
\* prop, the callback of the resolver is invoked, once for each such
\* fragment, and its resolvers hold the data read from the store; the
\* resolve() that follows returns the data of every resolver at its key and
\* index, and an entry whose object was in the previous result is still
\* that object
ResolverChangeNotified ==
    [][/\ storeNotify =>
            /\ \A k \in Subscribed(resolver) :
                   SelectorResolverOf(resolver', k).data =
                       ReadData(recordSource,
                                SelectorResolverOf(resolver, k).dataID)
            /\ resolver'.called =
                   Cardinality({k \in Subscribed(resolver) :
                                   SelectorResolverOf(resolver', k).data
                                   # SelectorResolverOf(resolver, k).data})
            /\ resolver'.called > 0 => resolver'.stale
       /\ resolve /\ lastOp = "notify" /\ resolver.called > 0 =>
            /\ resolver.user.dataID # "none" =>
                   resolver'.data.user = resolver.user.data
            /\ resolver.users.made =>
                   \A ii \in DOMAIN resolver.users.items :
                       /\ ItemAt(resolver'.data.users.items, ii) =
                              resolver.users.items[ii].data
                       /\ resolver.users.items[ii].at = ii =>
                              resolver'.users.items[ii].at = ii
            /\ resolver.user.at = 1 => resolver'.user.at = 1
      ]_vars

\* a change of the first of two items of the plural prop, both resolved
\* before, has invoked the callback once
WitnessResolverChangeNotified ==
    /\ lastOp = "notify"
    /\ resolver.called = 1
    /\ resolver.stale
    /\ Len(resolver.users.items) = 2
    /\ resolver.users.items[1].at = 0
    /\ resolver.users.items[1].data.st = "obj"
    /\ resolver.users.items[2].at = 2
    /\ resolver.users.items[2].data.st = "obj"
    /\ Len(resolver.data.users.items) = 2

\* what the calls of the container see of the resolver: its state without
\* the record of the last call
ResolverState(r) ==
    [r EXCEPT !.called = 0, !.fresh = FALSE, !.lookups = 0, !.disposes = 0,
              !.changed = FALSE]

\* C24: after dispose(), the resolver holds no subscription of the store;
\* a notify() after changes of the store does not invoke its callback and
\* leaves the resolver as it was, and resolve() returns the data that the
\* resolvers held at the dispose(), for the singular and the plural prop
DisposedResolverIsSilent ==
    /\ [](resolver.disposed =>
            /\ Subscribed(resolver) = {}
            /\ \A k \in DOMAIN subscriptions : subscriptions[k].id <= 100)
    /\ [][/\ storeNotify /\ resolver.disposed =>
               /\ resolver'.called = 0
               /\ ResolverState(resolver') = ResolverState(resolver)
          /\ resolve /\ resolver.disposed =>
               /\ resolver'.disposed
               /\ resolver'.user = [resolver.user EXCEPT
                                      !.at = resolver'.user.at]
               /\ resolver'.users.items =
                      [ii \in DOMAIN resolver.users.items |->
                          [resolver.users.items[ii] EXCEPT
                             !.at = resolver'.users.items[ii].at]]
               /\ resolver.user.dataID # "none" =>
                      resolver'.data.user = resolver.user.data
               /\ \A ii \in DOMAIN resolver.users.items :
                      resolver.users.items[ii].data.st = "obj" =>
                          \E k \in DOMAIN resolver'.data.users.items :
                              resolver'.data.users.items[k] =
                                  resolver.users.items[ii].data
         ]_vars

\* after dispose(), the records of the singular prop and of the first of
\* two items have changed in the store and notify() has run, and the
\* resolvers hold the data from before the change
WitnessDisposedResolverIsSilent ==
    /\ lastOp = "notify"
    /\ resolver.disposed
    /\ resolver.user.dataID \in lastNotify.updated
    /\ resolver.user.data.st = "obj"
    /\ resolver.user.data # ReadData(recordSource, resolver.user.dataID)
    /\ Len(resolver.users.items) = 2
    /\ resolver.users.items[1].dataID \in lastNotify.updated
    /\ resolver.users.items[1].data.st = "obj"
    /\ resolver.users.items[1].data
       # ReadData(recordSource, resolver.users.items[1].dataID)
    /\ resolver.data.users.st = "list"

\* a container that changes the props and the variables of its resolver
PropsNext ==
    \/ \E pu \in UserProps : \E pl \in UsersProps : newResolver(pu, pl)
    \/ \E pu \in UserProps : \E pl \in UsersProps : setProps(pu, pl)
    \/ \E v \in VariablesIDs : setVariables(v)
    \/ resolve
    \/ dispose

SpecProps == Init /\ [][PropsNext]_vars

\* the selectors that getSelectorsFromObject makes of the props pu and pl
PropsSelectors(pu, pl) ==
    [user |-> IF pu = "null" THEN <<"none", "none">>
              ELSE <<pu, PropsVariables>>,
     made |-> pl # "null",
     users |-> [ii \in DOMAIN UsersSelectors(pl) |->
                   <<UsersSelectors(pl)[ii], PropsVariables>>]]

\* every resolver of r with a selector holds its subscription
AllSubscribed(r) ==
    /\ r.user.dataID # "none" => r.user.sub # 0
    /\ \A ii \in DOMAIN r.users.items : r.users.items[ii].sub # 0

\* no lookup, no subscribe and no dispose was made in the step
NothingSubscribed ==
    /\ resolver'.lookups = 0
    /\ resolver'.disposes = 0
    /\ subscriptions' = subscriptions
    /\ resolver'.changed = resolver.changed

\* C25: resolve() returns the object it returned before when no selector,
\* subscription or subscribed data has changed since, also after setProps
\* with props that yield the selectors of the resolvers and after
\* setVariables with their variables; these calls make no lookup, no
\* subscribe and no dispose; when the plural prop gains items, a lookup and
\* a subscribe are made for each new item only
ResolveIsMemoized ==
    [][/\ resolve /\ ~resolver.changed =>
            /\ ~resolver'.fresh
            /\ resolver'.data = resolver.data
       /\ \A pu \in UserProps : \A pl \in UsersProps :
             setProps(pu, pl) /\ AllSubscribed(resolver) =>
                 /\ PropsSelectors(pu, pl) = SelectorsOf(resolver) =>
                        NothingSubscribed
                 /\ /\ PropsSelectors(pu, pl).user = SelectorsOf(resolver).user
                    /\ resolver.users.made
                    /\ Len(UsersSelectors(pl)) > Len(resolver.users.items)
                    /\ \A ii \in DOMAIN resolver.users.items :
                           PropsSelectors(pu, pl).users[ii] =
                               SelectorsOf(resolver).users[ii]
                    => /\ resolver'.lookups = Len(UsersSelectors(pl))
                                              - Len(resolver.users.items)
                       /\ resolver'.disposes = 0
                       /\ SubSeq(subscriptions', 1, Len(subscriptions)) =
                              subscriptions
       /\ \A v \in VariablesIDs :
             /\ setVariables(v)
             /\ AllSubscribed(resolver)
             /\ resolver.user.variables \in {v, "none"}
             /\ \A ii \in DOMAIN resolver.users.items :
                    resolver.users.items[ii].variables = v
             => NothingSubscribed
      ]_vars

\* the policy of the reader for a root that is deleted or not fetched, for
\* the snapshot of a read of the source src
MissingRootPolicy(src, snapshot) ==
    /\ src[snapshot.selector] = Tomb =>
           /\ snapshot.data.st = "null"
           /\ snapshot.seenRecords = {snapshot.selector}
    /\ src[snapshot.selector] = Absent =>
           /\ snapshot.data.st = "undefined"
           /\ snapshot.isMissingData
           /\ snapshot.seenRecords = {snapshot.selector}

OrderNext ==
    \/ applyUpdate("uSource")
    \/ revertUpdate("uSource")
    \/ \E x \in {"sOther", "sTwo"} :
           commitDataWithin("source", x, MaxPendingData + 1)
    \/ commitDataWithin("payload", "pReal", MaxPendingData + 1)
    \/ commitUpdate("cName")
    \/ run
    \/ \E selector \in DataIDs : subscribe(selector)

SpecOrder == Init /\ [][OrderNext]_vars

\* the entries of the pending data that hold a record for dataID id
WritersOf(id) ==
    {k \in DOMAIN pendingData : pendingData[k].source[id].st = "rec"}

\* the last of them
LastWriterOf(id) ==
    CHOOSE k \in WritersOf(id) : \A j \in WritersOf(id) : j <= k

\* C27: the publishes of one run() are ordered: the backup first, so that
\* the committed data is not undone with the optimistic updates; the
\* pending data in the order of their commits, so that the last entry for
\* a record gives its fields; the updaters after the data, and the
\* optimistic updates last.  notify() runs once after them: each
\* subscription is called at most once, with a snapshot that is a read of
\* the store as the run() leaves it, and is not called when that read gives
\* the data it had
RunProtocolOrder ==
    [][run /\ ~lastRun'.threw =>
        /\ recordSource'["1"].st =
               IF WritersOf("1") = {} THEN recordSource["1"].st ELSE "rec"
        /\ recordSource'["1"].f["name"] =
               IF pendingUpdaters # <<>> /\ recordSource'["1"].st = "rec"
               THEN "Real"
               ELSE IF WritersOf("1") = {} THEN recordSource["1"].f["name"]
               ELSE pendingData[LastWriterOf("1")].source["1"].f["name"]
        /\ IF "uSource" \in Range(appliedOptimisticUpdates')
           THEN recordSource'["2"] = WithName("Opti")
           ELSE recordSource'["2"] = authSource'["2"]
        /\ authSource'["2"] =
               IF WritersOf("2") = {} THEN authSource["2"]
               ELSE WithName("Real")
        /\ updatedRecordIDs' = {}
        /\ \A k \in DOMAIN lastNotify'.calls :
               /\ lastNotify'.calls[k].snapshot =
                      Read(recordSource',
                           lastNotify'.calls[k].snapshot.selector)
               /\ \A j \in DOMAIN lastNotify'.calls :
                      lastNotify'.calls[j].sub = lastNotify'.calls[k].sub
                      => j = k
        /\ \A i \in DOMAIN subscriptions :
               (\E k \in DOMAIN lastNotify'.calls :
                    lastNotify'.calls[k].sub = subscriptions[i].id)
               <=> ReadData(recordSource',
                            subscriptions[i].snapshot.selector)
                   # subscriptions[i].snapshot.data
       ]_vars

\* a run() that has undone the optimistic update of record 2, published
\* committed data for both records and applied the update again: the
\* subscription to record 1 was called and the one to record 2 was not
WitnessRunProtocolOrder ==
    /\ lastOp = "run"
    /\ ~lastRun.threw
    /\ lastRun.undid
    /\ lastRun.authWork
    /\ "uSource" \in Range(appliedOptimisticUpdates)
    /\ recordSource["2"] = WithName("Opti")
    /\ authSource["2"] = WithName("Real")
    /\ recordSource["1"] = WithName("Other")
    /\ Len(lastNotify.before) = 2
    /\ Len(lastNotify.calls) = 1
    /\ lastNotify.calls[1].snapshot.selector = "1"
    /\ \E i \in DOMAIN lastNotify.before :
           lastNotify.before[i].snapshot.selector = "2"

\* the optimistic updates that name record 1, and one that does not
NameUpdateIDs == {"uOther", "uResponse"}

\* optimistic updates that write the same field, applied, reverted and
\* applied again, with committed data that makes run() rebase them
RebaseNext ==
    \/ \E u \in NameUpdateIDs \cup {"uSource"} : applyUpdate(u)
    \/ \E u \in NameUpdateIDs \cup {"uSource"} : revertUpdate(u)
    \/ \E x \in {"sOther", "sTwo"} : commitSource(x)
    \/ commitPayload("pReal")
    \/ run

SpecRebase == Init /\ [][RebaseNext]_vars

\* the name an update of NameUpdateIDs gives record 1
NameWrittenBy(u) == IF u = "uOther" THEN "Other" ELSE "Opti"

\* the places in the applied set of the updates that name record 1
NameWriters(applied) ==
    {k \in DOMAIN applied : applied[k] \in NameUpdateIDs}

\* the update among them that was applied last
LastNameWriter(applied) ==
    applied[CHOOSE k \in NameWriters(applied) :
                \A j \in NameWriters(applied) : j <= k]

\* C28: after a run() the applied set is the one before it followed by the
\* pending updates in the order of their applyUpdate calls, and a field that
\* several applied updates write has the value of the one applied last
\* among those still applied
OptimisticUpdatesOrdered ==
    [][run /\ ~lastRun'.threw =>
        /\ appliedOptimisticUpdates' =
               appliedOptimisticUpdates \o pendingOptimisticUpdates
        /\ pendingOptimisticUpdates' = <<>>
        /\ NameWriters(appliedOptimisticUpdates') # {}
           => /\ recordSource'["1"].st = "rec"
              /\ recordSource'["1"].f["name"] =
                     NameWrittenBy(LastNameWriter(appliedOptimisticUpdates'))
       ]_vars

\* a run() has rebased two applied updates that give record 1 different
\* names, on committed data that gives it a third
WitnessOptimisticUpdatesOrdered ==
    /\ lastOp = "run"
    /\ ~lastRun.threw
    /\ lastRun.rebase
    /\ lastRun.authWork
    /\ appliedOptimisticUpdates = <<"uResponse", "uOther">>
    /\ recordSource["1"].f["name"] = "Other"
    /\ authSource["1"] = WithName("Real")

\* run() was the last call and returned normally
RunReturned == lastOp = "run" /\ ~lastRun.threw

\* C29: when run() has returned normally the queue has no pending data,
\* updaters or optimistic updates and no pending rebase, and the store has
\* no updated record IDs; a run() that follows at once publishes nothing,
\* executes no update, calls no subscription and returns the empty list
PostRunState ==
    /\ [](RunReturned =>
            /\ pendingData = <<>>
            /\ pendingUpdaters = <<>>
            /\ pendingOptimisticUpdates = <<>>
            /\ ~pendingBackupRebase
            /\ updatedRecordIDs = {})
    /\ [][RunReturned /\ run =>
            /\ ~lastRun'.threw
            /\ recordSource' = recordSource
            /\ backup' = backup
            /\ appliedOptimisticUpdates' = appliedOptimisticUpdates
            /\ subscriptions' = subscriptions
            /\ lastRun'.executed = {}
            /\ ~lastRun'.authWork /\ ~lastRun'.rebase /\ ~lastRun'.undid
            /\ lastNotify'.updated = {}
            /\ lastNotify'.reread = {}
            /\ lastNotify'.calls = <<>>
            /\ lastNotify'.owners = <<>>
       ]_vars

\* a run() that had committed data, a rebase and a pending optimistic update
\* to execute, and subscriptions to call, has returned
WitnessPostRunState ==
    /\ RunReturned
    /\ lastRun.authWork
    /\ lastRun.rebase
    /\ lastRun.executed # {}
    /\ appliedOptimisticUpdates # <<>>
    /\ lastNotify.calls # <<>>
    /\ subscriptions # <<>>

\* publishing the entry s for dataID id: onto a record, the fields of s and
\* the other fields of the record, and id is marked exactly when a field
\* changed; where there is no record, s is stored and id is marked
PublishedRecord(id, s) ==
    IF recordSource[id].st = "rec"
    THEN /\ recordSource'[id].st = "rec"
         /\ \A k \in Fields :
                recordSource'[id].f[k] =
                    IF s.f[k] # "undef" THEN s.f[k] ELSE recordSource[id].f[k]
         /\ id \in updatedRecordIDs'
            <=> \/ id \in updatedRecordIDs
                \/ \E k \in Fields :
                       s.f[k] \notin {"undef", recordSource[id].f[k]}
         /\ id \notin updatedRecordIDs' => recordSource'[id] = recordSource[id]
    ELSE /\ recordSource'[id] = s
         /\ id \in updatedRecordIDs'

\* C30: publish merges a record into the record of the store field by
\* field: the fields of the published record are taken, the fields that only
\* the old record has are kept, and when no field value changes the dataID
\* is not marked and the record stays as it was; a record published where
\* the store has none, or a tombstone, is stored and its dataID is marked
PublishMergesFields ==
    [][\A e1, e2 \in EntryIDs :
           publish(e1, e2) =>
               \A id \in DataIDs :
                   SourceFrom(e1, e2)[id].st = "rec"
                   => PublishedRecord(id, SourceFrom(e1, e2)[id])
      ]_vars

\* a record with a friend only was published onto record 1 with a name, or
\* the other way round, and on record 2 a record replaced a tombstone
WitnessPublishMergesFields ==
    /\ lastOp = "store"
    /\ recordSource["1"] = Rec([name |-> "Opti", friend |-> "2"])
    /\ recordSource["2"].st = "rec"
    /\ updatedRecordIDs = {"1"}

\* publishing the entry s for dataID id, where s is no record: null leaves
\* a tombstone and marks id if the entry was not null before, the unpublish
\* sentinel leaves no entry and marks id, and undefined leaves all as it was
PublishedNonRecord(id, s) ==
    CASE s.st = "null" ->
           /\ recordSource'[id] = Tomb
           /\ id \in getRecordIDs(recordSource')
           /\ ReadData(recordSource', id).st = "null"
           /\ id \in updatedRecordIDs'
              <=> (id \in updatedRecordIDs \/ recordSource[id].st # "null")
      [] s.st = "unpublish" ->
           /\ recordSource'[id] = Absent
           /\ id \notin getRecordIDs(recordSource')
           /\ ReadData(recordSource', id).st = "undefined"
           /\ id \in updatedRecordIDs'
      [] s.st = "absent" ->
           /\ recordSource'[id] = recordSource[id]
           /\ id \in updatedRecordIDs' <=> id \in updatedRecordIDs
      [] OTHER -> TRUE

\* C31: a published null leaves a tombstone, which the source lists and a
\* read finds deleted, and marks the dataID only if the entry was not null
\* before; a published unpublish sentinel leaves the dataID absent and marks
\* it; an undefined entry of the published source changes nothing
TombstoneVersusUnpublish ==
    [][\A e1, e2 \in EntryIDs :
           publish(e1, e2) =>
               \A id \in DataIDs :
                   PublishedNonRecord(id, SourceFrom(e1, e2)[id])
      ]_vars

\* null was published onto the tombstone of record 1 after a notify(), which
\* marks nothing, and record 2 was unpublished
WitnessTombstoneVersusUnpublish ==
    /\ lastOp = "store"
    /\ recordSource["1"] = Tomb
    /\ recordSource["2"] = Absent
    /\ updatedRecordIDs = {"2"}

\* subscriptions to records whose links appear and whose linked records
\* arrive later: publish and notify() on the store
SnapshotNext ==
    \/ \E e1 \in {"none", "real", "linked"}, e2 \in {"none", "null", "real"} :
           publish(e1, e2)
    \/ storeNotify
    \/ \E selector \in DataIDs : subscribe(selector)
    \/ \E i \in 1..MaxSubs : subscriptionDispose(i)

SpecSnapshot == Init /\ [][SnapshotNext]_vars

\* subscription i has seen a record that was updated
Overlaps(i) ==
    hasOverlappingIDs(subscriptions[i].snapshot, updatedRecordIDs)

\* the data that a read for subscription i gives now
DataNow(i) == ReadData(recordSource, subscriptions[i].snapshot.selector)

\* the callback of subscription i is called in this step
CalledNow(i) ==
    \E k \in DOMAIN lastNotify'.calls :
        lastNotify'.calls[k].sub = subscriptions[i].id

\* notify() stores the snapshot that was read again for every subscription
\* that overlaps the updated IDs, with the seenRecords of that read and the
\* previous data where the data is equal, and calls the callback only when
\* the data is not; a subscription without overlap keeps its snapshot
NotifyStoresEverySnapshotReadAgain ==
    [][storeNotify =>
        \A i \in DOMAIN subscriptions :
            IF Overlaps(i)
            THEN /\ subscriptions'[i].snapshot =
                        Read(recordSource, subscriptions[i].snapshot.selector)
                 /\ CalledNow(i) <=> DataNow(i) # subscriptions[i].snapshot.data
            ELSE /\ subscriptions'[i].snapshot = subscriptions[i].snapshot
                 /\ ~CalledNow(i)
      ]_vars

\* C32: notify() replaces the stored snapshot of a subscription that
\* overlaps the updated IDs, its data and its seenRecords, only if the data
\* read again is not the data it had; with the same data the subscription
\* keeps its previous snapshot
NotifyReplacesSnapshotOnlyWhenFired ==
    [][storeNotify =>
        \A i \in DOMAIN subscriptions :
            Overlaps(i) /\ DataNow(i) = subscriptions[i].snapshot.data
            => subscriptions'[i].snapshot = subscriptions[i].snapshot
      ]_vars

\* notify() has read a subscription to record 1 again and has not called
\* it, and its snapshot has the linked record 2 among its seenRecords
WitnessNotifyStoresEverySnapshotReadAgain ==
    /\ lastOp = "notify"
    /\ lastNotify.calls = <<>>
    /\ \E i \in DOMAIN subscriptions :
           /\ subscriptions[i].id \in lastNotify.reread
           /\ subscriptions[i].snapshot.selector = "1"
           /\ subscriptions[i].snapshot.seenRecords = {"1", "2"}
           /\ lastNotify.before[i].snapshot.seenRecords = {"1"}

\* the number of selectors of the resolvers of r
NumSelectors(r) ==
    (IF r.user.dataID = "none" THEN 0 ELSE 1) + Len(r.users.items)

\* after the step the resolvers have the selectors of some props, each holds
\* its subscription, and the store has as many subscriptions as selectors
AccountedForProps ==
    /\ AllSubscribed(resolver')
    /\ Len(subscriptions') = NumSelectors(resolver')
    /\ \E pu \in UserProps : \E pl \in UsersProps :
           SelectorsOf(resolver') = PropsSelectors(pu, pl)

\* after the step each resolver holds its subscription, and the store has
\* as many subscriptions as before
AccountedForVariables ==
    /\ AllSubscribed(resolver')
    /\ Len(subscriptions') = Len(subscriptions)

\* the subscriptions of the store are those of the resolvers of r, one for
\* each resolver that holds one
SubscriptionsAreOf(r) ==
    /\ Len(subscriptions) = Cardinality(Subscribed(r))
    /\ \A k \in Subscribed(r) :
           \E i \in DOMAIN subscriptions :
               /\ subscriptions[i].id = SelectorResolverOf(r, k).sub
               /\ subscriptions[i].snapshot.selector =
                      SelectorResolverOf(r, k).dataID
    /\ \A k, j \in Subscribed(r) :
           SelectorResolverOf(r, k).sub = SelectorResolverOf(r, j).sub
           => k = j
    /\ \A i, j \in DOMAIN subscriptions :
           subscriptions[i].id = subscriptions[j].id => i = j

\* C33: the store holds one subscription for each SelectorResolver that has
\* one and no other, so a resolver never has two and none is left behind by
\* a change of selector, a prop set to null or a plural prop that shrinks;
\* after the construction and after setProps the subscriptions are as many
\* as the selectors of the props, one for each resolver, and setVariables
\* keeps them so
ResolverSubscriptionAccounting ==
    /\ [](SubscriptionsAreOf(resolver))
    /\ [][\/ AccountedForProps
           \/ ~\E pu \in UserProps : \E pl \in UsersProps :
                  newResolver(pu, pl) \/ setProps(pu, pl)
         ]_vars
    /\ [][\/ AccountedForVariables
           \/ ~AllSubscribed(resolver)
           \/ ~\E v \in VariablesIDs : setVariables(v)
         ]_vars

\* setProps has set the key user to null and taken the second item from the
\* key users: two subscriptions were disposed, none made, and one is left
WitnessResolverSubscriptionAccounting ==
    /\ lastOp = "resolver"
    /\ resolver.made
    /\ resolver.disposes = 2
    /\ resolver.lookups = 0
    /\ resolver.user.dataID = "none"
    /\ Len(resolver.users.items) = 1
    /\ Len(subscriptions) = 1
    /\ AllSubscribed(resolver)

\* C34: after publish(S) every dataID whose entry in the source of the store
\* is not what it was is among the updated IDs, and a dataID that S has no
\* entry for keeps its entry and is not added to the updated IDs; no
\* updated ID is dropped
ChangeTrackingCompleteAndLocal ==
    [][\A e1, e2 \in EntryIDs :
           publish(e1, e2) =>
               /\ updatedRecordIDs \subseteq updatedRecordIDs'
               /\ \A id \in DataIDs :
                      /\ recordSource'[id] # recordSource[id]
                         => id \in updatedRecordIDs'
                      /\ id \notin getRecordIDs(SourceFrom(e1, e2))
                         => /\ recordSource'[id] = recordSource[id]
                            /\ id \in updatedRecordIDs'
                               => id \in updatedRecordIDs
      ]_vars

\* null was published for record 1, which was absent, and nothing for
\* record 2, which the store holds: only record 1 is updated
WitnessChangeTrackingCompleteAndLocal ==
    /\ lastOp = "store"
    /\ recordSource["1"] = Tomb
    /\ recordSource["2"].st = "rec"
    /\ updatedRecordIDs = {"1"}
    /\ authSource = recordSource

\* a run() that fails part-way: an optimistic update and a payload whose
\* execution raises an error, with updates, payloads and updaters that run
FailureUpdateIDs == {"uCreate", "uNoHandler"}

FailureNext ==
    \/ \E u \in FailureUpdateIDs : applyUpdate(u)
    \/ \E u \in FailureUpdateIDs : revertUpdate(u)
    \/ \E p \in PayloadIDs : commitPayload(p)
    \/ \E c \in {"cName"} : commitUpdate(c)
    \/ run
    \/ \E selector \in {"1"} : subscribe(selector)

SpecFailure == Init /\ [][FailureNext]_vars

\* C35: no optimistic update is in the pending set and in the applied set
\* at the same time, in any state that the operations of the queue reach,
\* the states after a run() that raised an error included
PendingAndAppliedDisjoint ==
    Range(pendingOptimisticUpdates) \cap Range(appliedOptimisticUpdates) = {}

\* the dataIDs that the updates write when they run on base
WrittenBy(base, updates) ==
    getRecordIDs(runOptimisticUpdates(OptTx(EmptySource), base, updates,
                                      FALSE).sink)

\* the backup entry b holds the entry a as it was before the first write:
\* the record with a sentinel for each field it did not have, the tombstone,
\* or the unpublish sentinel where there was no entry
HoldsStateBefore(b, a) ==
    CASE a.st = "rec" ->
           /\ b.st = "rec"
           /\ \A k \in Fields :
                  \/ b.f[k] = a.f[k]
                  \/ a.f[k] = "undef" /\ b.f[k] = "unpubf"
      [] a.st = "null" -> b = Tomb
      [] OTHER -> b = Unpublish

\* C36: after a run() that returned, the backup is empty if no optimistic
\* update is applied, and otherwise has entries only for dataIDs that the
\* applied updates write, each with the state the record has without the
\* optimistic writes
BackupOnlyForAppliedState ==
    RunReturned =>
        /\ appliedOptimisticUpdates = <<>> => size(backup) = 0
        /\ \A id \in getRecordIDs(backup) :
               /\ id \in WrittenBy(authSource, appliedOptimisticUpdates)
               /\ HoldsStateBefore(backup[id], authSource[id])

\* a run() has undone an update, committed data and applied the remaining
\* update again: the backup has the committed state of the record it writes
WitnessBackupOnlyForAppliedState ==
    /\ RunReturned
    /\ lastRun.rebase /\ lastRun.undid /\ lastRun.authWork
    /\ Len(appliedOptimisticUpdates) = 1
    /\ size(backup) > 0
    /\ \E id \in getRecordIDs(backup) : backup[id].st = "rec"

\* the holds that holdGC() has handed to users and that were not disposed
LiveHolds == {h \in DOMAIN holds : holds[h] = "live"}

\* C37: the hold counter of the store is the number of the disposables of
\* holdGC() that were not disposed, those of the users and that of the
\* queue, and is never negative: a second dispose() of a disposable
\* releases no hold
HoldCounterCountsLiveHolds ==
    /\ gcHoldCounter >= 0
    /\ gcHoldCounter = Cardinality(LiveHolds) + queueHoldCount

\* the store with subscriptions and retained roots: records are published,
\* evicted by the GC when no root refers to them, and notify() is called
SilentGCNext ==
    \/ \E e1, e2 \in {"none", "real"} : publish(e1, e2)
    \/ storeNotify
    \/ \E selector \in DataIDs : subscribe(selector)
    \/ \E selector \in {"1"} : retain(selector)
    \/ \E i \in 0..(MaxRetain - 1) : retainDispose(i)
    \/ runScheduledGC

SpecSilentGC == Init /\ [][SilentGCNext]_vars

Executions(seq, u) == Cardinality({k \in DOMAIN seq : seq[k] = u})

\* C39: a run() without a pending rebase executes the pending updates, each
\* once, and none of the applied ones; a run() with a pending rebase
\* executes the applied updates, each once, and then the pending ones, each
\* once; an update that is neither pending nor applied is not executed
UpdaterExecutionCount ==
    [][run /\ ~lastRun'.threw =>
        /\ lastRun'.executions =
               IF pendingBackupRebase
               THEN appliedOptimisticUpdates \o pendingOptimisticUpdates
               ELSE pendingOptimisticUpdates
        /\ \A u \in OptimisticUpdateIDs \cup FailureUpdateIDs :
               /\ Executions(lastRun'.executions, u) <= 1
               /\ (u \notin Range(appliedOptimisticUpdates)
                   /\ u \notin Range(pendingOptimisticUpdates))
                  => Executions(lastRun'.executions, u) = 0
      ]_vars

\* C40: a run() that raises an error leaves the source and the updated IDs
\* of the store, the backup, the pending data, updaters and optimistic
\* updates, the applied updates and the GC hold as they were when it was
\* called
FailedRunHasNoEffect ==
    [][run /\ lastRun'.threw =>
        /\ recordSource' = recordSource
        /\ updatedRecordIDs' = updatedRecordIDs
        /\ backup' = backup
        /\ Len(pendingData') = Len(pendingData)
        /\ pendingUpdaters' = pendingUpdaters
        /\ pendingOptimisticUpdates' = pendingOptimisticUpdates
        /\ appliedOptimisticUpdates' = appliedOptimisticUpdates
        /\ pendingBackupRebase' = pendingBackupRebase
        /\ gcHold' = gcHold
        /\ gcHoldCounter' = gcHoldCounter
      ]_vars
====
